---------------------------- MODULE Spec2Model ----------------------------
(***************************************************************************)
(* A model of damnode, a command-line installer of Node.js packages.       *)
(*                                                                         *)
(* damnode.py  : class DamNode and the click commands cmd_install and      *)
(*               cmd_uninstall.                                            *)
(* damnode2.py : class Damnode (install, download_package, ...).           *)
(*                                                                         *)
(* Texts are TLA+ strings.  TLC cannot look inside a string, so Chars      *)
(* spells every text of the model character by character; the regular      *)
(* expressions of the source are evaluated on these character sequences.   *)
(***************************************************************************)
EXTENDS Integers, Sequences, FiniteSets, TLC

\* Bounds of the model.
MaxDirs == 2        \* version directories on the index page
MaxLinks == 2       \* package links over all version directories
BodyChunks == 2     \* chunks of the body of a package file
MaxKills == 1       \* times the process is killed inside download_package

\* Python's None, for texts and for the optional numbers of a version.
None == "<None>"
NoInt == -1

\* The spelling of every text of the model.
Chars ==
       ("" :> <<>>)
    @@ ("v3.9.0/" :> <<"v", "3", ".", "9", ".", "0", "/">>)
    @@ ("v4.0.0/" :> <<"v", "4", ".", "0", ".", "0", "/">>)
    @@ ("v5.0.0/" :> <<"v", "5", ".", "0", ".", "0", "/">>)
    @@ ("v5.0.1/" :> <<"v", "5", ".", "0", ".", "1", "/">>)
    @@ ("v5.1.0/" :> <<"v", "5", ".", "1", ".", "0", "/">>)
    @@ ("v6.0.1/" :> <<"v", "6", ".", "0", ".", "1", "/">>)
    @@ ("latest/" :> <<"l", "a", "t", "e", "s", "t", "/">>)
    @@ ("0" :> <<"0">>)
    @@ ("4" :> <<"4">>)
    @@ ("5" :> <<"5">>)
    @@ ("v5" :> <<"v", "5">>)
    @@ ("6" :> <<"6">>)
    @@ ("5.0" :> <<"5", ".", "0">>)
    @@ ("5.1" :> <<"5", ".", "1">>)
    @@ ("6.0" :> <<"6", ".", "0">>)
    @@ ("5.0.0" :> <<"5", ".", "0", ".", "0">>)
    @@ ("5.0.1" :> <<"5", ".", "0", ".", "1">>)
    @@ ("5.1.0" :> <<"5", ".", "1", ".", "0">>)
    @@ ("node-v5.0.0-linux-x64.tar.gz" :> <<"n", "o", "d", "e", "-", "v", "5", ".", "0", ".", "0", "-", "l", "i", "n", "u", "x", "-", "x", "6", "4", ".", "t", "a", "r", ".", "g", "z">>)
    @@ ("node-v5.0.1-linux-x64.tar.gz" :> <<"n", "o", "d", "e", "-", "v", "5", ".", "0", ".", "1", "-", "l", "i", "n", "u", "x", "-", "x", "6", "4", ".", "t", "a", "r", ".", "g", "z">>)
    @@ ("node-v5.0.0-win-x86.zip" :> <<"n", "o", "d", "e", "-", "v", "5", ".", "0", ".", "0", "-", "w", "i", "n", "-", "x", "8", "6", ".", "z", "i", "p">>)
    @@ ("node-v5.0.0-linux-x64.tar.xz" :> <<"n", "o", "d", "e", "-", "v", "5", ".", "0", ".", "0", "-", "l", "i", "n", "u", "x", "-", "x", "6", "4", ".", "t", "a", "r", ".", "x", "z">>)
    @@ ("SHASUMS256.txt" :> <<"S", "H", "A", "S", "U", "M", "S", "2", "5", "6", ".", "t", "x", "t">>)
    @@ ("linux" :> <<"l", "i", "n", "u", "x">>)
    @@ ("win" :> <<"w", "i", "n">>)
    @@ ("x64" :> <<"x", "6", "4">>)
    @@ ("x86" :> <<"x", "8", "6">>)
    @@ ("tar.gz" :> <<"t", "a", "r", ".", "g", "z">>)
    @@ ("zip" :> <<"z", "i", "p">>)
    @@ ("tar.xz" :> <<"t", "a", "r", ".", "x", "z">>)
    @@ (".tar.gz" :> <<".", "t", "a", "r", ".", "g", "z">>)
    @@ (".zip" :> <<".", "z", "i", "p">>)
    @@ ("Linux" :> <<"L", "i", "n", "u", "x">>)
    @@ ("Windows" :> <<"W", "i", "n", "d", "o", "w", "s">>)
    @@ ("windows" :> <<"w", "i", "n", "d", "o", "w", "s">>)
    @@ ("x86_64" :> <<"x", "8", "6", "_", "6", "4">>)
    @@ ("x86_32" :> <<"x", "8", "6", "_", "3", "2">>)
    @@ ("amd64" :> <<"a", "m", "d", "6", "4">>)
    @@ ("AMD64" :> <<"A", "M", "D", "6", "4">>)
    @@ ("https://nodejs.org/dist/latest-v8.x/node-v8.1.2-linux-x64.tar.gz" :> <<"h", "t", "t", "p", "s", ":", "/", "/", "n", "o", "d", "e", "j", "s", ".", "o", "r", "g", "/", "d", "i", "s", "t", "/", "l", "a", "t", "e", "s", "t", "-", "v", "8", ".", "x", "/", "n", "o", "d", "e", "-", "v", "8", ".", "1", ".", "2", "-", "l", "i", "n", "u", "x", "-", "x", "6", "4", ".", "t", "a", "r", ".", "g", "z">>)
    @@ ("https://nodejs.org/dist/latest-v8.x/node-v8.1.2-aix-ppc64.tar.gz" :> <<"h", "t", "t", "p", "s", ":", "/", "/", "n", "o", "d", "e", "j", "s", ".", "o", "r", "g", "/", "d", "i", "s", "t", "/", "l", "a", "t", "e", "s", "t", "-", "v", "8", ".", "x", "/", "n", "o", "d", "e", "-", "v", "8", ".", "1", ".", "2", "-", "a", "i", "x", "-", "p", "p", "c", "6", "4", ".", "t", "a", "r", ".", "g", "z">>)
    @@ ("https://nodejs.org/dist/not-node.zip" :> <<"h", "t", "t", "p", "s", ":", "/", "/", "n", "o", "d", "e", "j", "s", ".", "o", "r", "g", "/", "d", "i", "s", "t", "/", "n", "o", "t", "-", "n", "o", "d", "e", ".", "z", "i", "p">>)
    @@ ("/data/local-index/node-v8.1.2-linux-x64.tar.gz" :> <<"/", "d", "a", "t", "a", "/", "l", "o", "c", "a", "l", "-", "i", "n", "d", "e", "x", "/", "n", "o", "d", "e", "-", "v", "8", ".", "1", ".", "2", "-", "l", "i", "n", "u", "x", "-", "x", "6", "4", ".", "t", "a", "r", ".", "g", "z">>)
    @@ ("https://nodejs.org/dist/latest-v8.x" :> <<"h", "t", "t", "p", "s", ":", "/", "/", "n", "o", "d", "e", "j", "s", ".", "o", "r", "g", "/", "d", "i", "s", "t", "/", "l", "a", "t", "e", "s", "t", "-", "v", "8", ".", "x">>)
    @@ ("https://nodejs.org/dist" :> <<"h", "t", "t", "p", "s", ":", "/", "/", "n", "o", "d", "e", "j", "s", ".", "o", "r", "g", "/", "d", "i", "s", "t">>)
    @@ ("/data/local-index" :> <<"/", "d", "a", "t", "a", "/", "l", "o", "c", "a", "l", "-", "i", "n", "d", "e", "x">>)
    @@ ("node-v8.1.2-linux-x64.tar.gz" :> <<"n", "o", "d", "e", "-", "v", "8", ".", "1", ".", "2", "-", "l", "i", "n", "u", "x", "-", "x", "6", "4", ".", "t", "a", "r", ".", "g", "z">>)
    @@ ("node-v8.1.2-aix-ppc64.tar.gz" :> <<"n", "o", "d", "e", "-", "v", "8", ".", "1", ".", "2", "-", "a", "i", "x", "-", "p", "p", "c", "6", "4", ".", "t", "a", "r", ".", "g", "z">>)
    @@ ("not-node.zip" :> <<"n", "o", "t", "-", "n", "o", "d", "e", ".", "z", "i", "p">>)
    @@ ("v8.1.2" :> <<"v", "8", ".", "1", ".", "2">>)
    @@ ("aix" :> <<"a", "i", "x">>)
    @@ ("ppc64" :> <<"p", "p", "c", "6", "4">>)
    @@ (".gz" :> <<".", "g", "z">>)
    @@ (".msi" :> <<".", "m", "s", "i">>)
    @@ (".pkg" :> <<".", "p", "k", "g">>)
    @@ (".xz" :> <<".", "x", "z">>)
    @@ ("8.1.2" :> <<"8", ".", "1", ".", "2">>)
    @@ ("argon" :> <<"a", "r", "g", "o", "n">>)
    @@ ("foo" :> <<"f", "o", "o">>)
    @@ ("v4" :> <<"v", "4">>)
    @@ ("5.12" :> <<"5", ".", "1", "2">>)
    @@ ("6.11.0" :> <<"6", ".", "1", "1", ".", "0">>)
    @@ ("6.11.0.0" :> <<"6", ".", "1", "1", ".", "0", ".", "0">>)
    @@ ("node-v4" :> <<"n", "o", "d", "e", "-", "v", "4">>)
    @@ ("8.1.2\n" :> <<"8", ".", "1", ".", "2", "\n">>)
    @@ ("node-v8.1.2-linux-x64.zip" :> <<"n", "o", "d", "e", "-", "v", "8", ".", "1", ".", "2", "-", "l", "i", "n", "u", "x", "-", "x", "6", "4", ".", "z", "i", "p">>)
    @@ ("node-v8.1.2-linux-x64.superzip" :> <<"n", "o", "d", "e", "-", "v", "8", ".", "1", ".", "2", "-", "l", "i", "n", "u", "x", "-", "x", "6", "4", ".", "s", "u", "p", "e", "r", "z", "i", "p">>)
    @@ ("node-v8.1.2-linux-a-b.tar.gz" :> <<"n", "o", "d", "e", "-", "v", "8", ".", "1", ".", "2", "-", "l", "i", "n", "u", "x", "-", "a", "-", "b", ".", "t", "a", "r", ".", "g", "z">>)
    @@ ("node-v8.1.2-linux-a-b.zip" :> <<"n", "o", "d", "e", "-", "v", "8", ".", "1", ".", "2", "-", "l", "i", "n", "u", "x", "-", "a", "-", "b", ".", "z", "i", "p">>)
    @@ ("node-v8.1.2-linux-a-b.superzip" :> <<"n", "o", "d", "e", "-", "v", "8", ".", "1", ".", "2", "-", "l", "i", "n", "u", "x", "-", "a", "-", "b", ".", "s", "u", "p", "e", "r", "z", "i", "p">>)
    @@ ("node-v8.1.2-li.nux-x64.tar.gz" :> <<"n", "o", "d", "e", "-", "v", "8", ".", "1", ".", "2", "-", "l", "i", ".", "n", "u", "x", "-", "x", "6", "4", ".", "t", "a", "r", ".", "g", "z">>)
    @@ ("node-v8.1.2-li.nux-x64.zip" :> <<"n", "o", "d", "e", "-", "v", "8", ".", "1", ".", "2", "-", "l", "i", ".", "n", "u", "x", "-", "x", "6", "4", ".", "z", "i", "p">>)
    @@ ("node-v8.1.2-li.nux-x64.superzip" :> <<"n", "o", "d", "e", "-", "v", "8", ".", "1", ".", "2", "-", "l", "i", ".", "n", "u", "x", "-", "x", "6", "4", ".", "s", "u", "p", "e", "r", "z", "i", "p">>)
    @@ ("node-v8.1.2-li.nux-a-b.tar.gz" :> <<"n", "o", "d", "e", "-", "v", "8", ".", "1", ".", "2", "-", "l", "i", ".", "n", "u", "x", "-", "a", "-", "b", ".", "t", "a", "r", ".", "g", "z">>)
    @@ ("node-v8.1.2-li.nux-a-b.zip" :> <<"n", "o", "d", "e", "-", "v", "8", ".", "1", ".", "2", "-", "l", "i", ".", "n", "u", "x", "-", "a", "-", "b", ".", "z", "i", "p">>)
    @@ ("node-v8.1.2-li.nux-a-b.superzip" :> <<"n", "o", "d", "e", "-", "v", "8", ".", "1", ".", "2", "-", "l", "i", ".", "n", "u", "x", "-", "a", "-", "b", ".", "s", "u", "p", "e", "r", "z", "i", "p">>)
    @@ ("node-v8-linux-x64.tar.gz" :> <<"n", "o", "d", "e", "-", "v", "8", "-", "l", "i", "n", "u", "x", "-", "x", "6", "4", ".", "t", "a", "r", ".", "g", "z">>)
    @@ ("node-v8-linux-x64.zip" :> <<"n", "o", "d", "e", "-", "v", "8", "-", "l", "i", "n", "u", "x", "-", "x", "6", "4", ".", "z", "i", "p">>)
    @@ ("node-v8-linux-x64.superzip" :> <<"n", "o", "d", "e", "-", "v", "8", "-", "l", "i", "n", "u", "x", "-", "x", "6", "4", ".", "s", "u", "p", "e", "r", "z", "i", "p">>)
    @@ ("node-v8-linux-a-b.tar.gz" :> <<"n", "o", "d", "e", "-", "v", "8", "-", "l", "i", "n", "u", "x", "-", "a", "-", "b", ".", "t", "a", "r", ".", "g", "z">>)
    @@ ("node-v8-linux-a-b.zip" :> <<"n", "o", "d", "e", "-", "v", "8", "-", "l", "i", "n", "u", "x", "-", "a", "-", "b", ".", "z", "i", "p">>)
    @@ ("node-v8-linux-a-b.superzip" :> <<"n", "o", "d", "e", "-", "v", "8", "-", "l", "i", "n", "u", "x", "-", "a", "-", "b", ".", "s", "u", "p", "e", "r", "z", "i", "p">>)
    @@ ("node-v8-li.nux-x64.tar.gz" :> <<"n", "o", "d", "e", "-", "v", "8", "-", "l", "i", ".", "n", "u", "x", "-", "x", "6", "4", ".", "t", "a", "r", ".", "g", "z">>)
    @@ ("node-v8-li.nux-x64.zip" :> <<"n", "o", "d", "e", "-", "v", "8", "-", "l", "i", ".", "n", "u", "x", "-", "x", "6", "4", ".", "z", "i", "p">>)
    @@ ("node-v8-li.nux-x64.superzip" :> <<"n", "o", "d", "e", "-", "v", "8", "-", "l", "i", ".", "n", "u", "x", "-", "x", "6", "4", ".", "s", "u", "p", "e", "r", "z", "i", "p">>)
    @@ ("node-v8-li.nux-a-b.tar.gz" :> <<"n", "o", "d", "e", "-", "v", "8", "-", "l", "i", ".", "n", "u", "x", "-", "a", "-", "b", ".", "t", "a", "r", ".", "g", "z">>)
    @@ ("node-v8-li.nux-a-b.zip" :> <<"n", "o", "d", "e", "-", "v", "8", "-", "l", "i", ".", "n", "u", "x", "-", "a", "-", "b", ".", "z", "i", "p">>)
    @@ ("node-v8-li.nux-a-b.superzip" :> <<"n", "o", "d", "e", "-", "v", "8", "-", "l", "i", ".", "n", "u", "x", "-", "a", "-", "b", ".", "s", "u", "p", "e", "r", "z", "i", "p">>)
    @@ ("node-v08.1-linux-x64.tar.gz" :> <<"n", "o", "d", "e", "-", "v", "0", "8", ".", "1", "-", "l", "i", "n", "u", "x", "-", "x", "6", "4", ".", "t", "a", "r", ".", "g", "z">>)
    @@ ("node-v08.1-linux-x64.zip" :> <<"n", "o", "d", "e", "-", "v", "0", "8", ".", "1", "-", "l", "i", "n", "u", "x", "-", "x", "6", "4", ".", "z", "i", "p">>)
    @@ ("node-v08.1-linux-x64.superzip" :> <<"n", "o", "d", "e", "-", "v", "0", "8", ".", "1", "-", "l", "i", "n", "u", "x", "-", "x", "6", "4", ".", "s", "u", "p", "e", "r", "z", "i", "p">>)
    @@ ("node-v08.1-linux-a-b.tar.gz" :> <<"n", "o", "d", "e", "-", "v", "0", "8", ".", "1", "-", "l", "i", "n", "u", "x", "-", "a", "-", "b", ".", "t", "a", "r", ".", "g", "z">>)
    @@ ("node-v08.1-linux-a-b.zip" :> <<"n", "o", "d", "e", "-", "v", "0", "8", ".", "1", "-", "l", "i", "n", "u", "x", "-", "a", "-", "b", ".", "z", "i", "p">>)
    @@ ("node-v08.1-linux-a-b.superzip" :> <<"n", "o", "d", "e", "-", "v", "0", "8", ".", "1", "-", "l", "i", "n", "u", "x", "-", "a", "-", "b", ".", "s", "u", "p", "e", "r", "z", "i", "p">>)
    @@ ("node-v08.1-li.nux-x64.tar.gz" :> <<"n", "o", "d", "e", "-", "v", "0", "8", ".", "1", "-", "l", "i", ".", "n", "u", "x", "-", "x", "6", "4", ".", "t", "a", "r", ".", "g", "z">>)
    @@ ("node-v08.1-li.nux-x64.zip" :> <<"n", "o", "d", "e", "-", "v", "0", "8", ".", "1", "-", "l", "i", ".", "n", "u", "x", "-", "x", "6", "4", ".", "z", "i", "p">>)
    @@ ("node-v08.1-li.nux-x64.superzip" :> <<"n", "o", "d", "e", "-", "v", "0", "8", ".", "1", "-", "l", "i", ".", "n", "u", "x", "-", "x", "6", "4", ".", "s", "u", "p", "e", "r", "z", "i", "p">>)
    @@ ("node-v08.1-li.nux-a-b.tar.gz" :> <<"n", "o", "d", "e", "-", "v", "0", "8", ".", "1", "-", "l", "i", ".", "n", "u", "x", "-", "a", "-", "b", ".", "t", "a", "r", ".", "g", "z">>)
    @@ ("node-v08.1-li.nux-a-b.zip" :> <<"n", "o", "d", "e", "-", "v", "0", "8", ".", "1", "-", "l", "i", ".", "n", "u", "x", "-", "a", "-", "b", ".", "z", "i", "p">>)
    @@ ("node-v08.1-li.nux-a-b.superzip" :> <<"n", "o", "d", "e", "-", "v", "0", "8", ".", "1", "-", "l", "i", ".", "n", "u", "x", "-", "a", "-", "b", ".", "s", "u", "p", "e", "r", "z", "i", "p">>)
    @@ ("node-vX-linux-x64.tar.gz" :> <<"n", "o", "d", "e", "-", "v", "X", "-", "l", "i", "n", "u", "x", "-", "x", "6", "4", ".", "t", "a", "r", ".", "g", "z">>)
    @@ ("node-vX-linux-x64.zip" :> <<"n", "o", "d", "e", "-", "v", "X", "-", "l", "i", "n", "u", "x", "-", "x", "6", "4", ".", "z", "i", "p">>)
    @@ ("node-vX-linux-x64.superzip" :> <<"n", "o", "d", "e", "-", "v", "X", "-", "l", "i", "n", "u", "x", "-", "x", "6", "4", ".", "s", "u", "p", "e", "r", "z", "i", "p">>)
    @@ ("node-vX-linux-a-b.tar.gz" :> <<"n", "o", "d", "e", "-", "v", "X", "-", "l", "i", "n", "u", "x", "-", "a", "-", "b", ".", "t", "a", "r", ".", "g", "z">>)
    @@ ("node-vX-linux-a-b.zip" :> <<"n", "o", "d", "e", "-", "v", "X", "-", "l", "i", "n", "u", "x", "-", "a", "-", "b", ".", "z", "i", "p">>)
    @@ ("node-vX-linux-a-b.superzip" :> <<"n", "o", "d", "e", "-", "v", "X", "-", "l", "i", "n", "u", "x", "-", "a", "-", "b", ".", "s", "u", "p", "e", "r", "z", "i", "p">>)
    @@ ("node-vX-li.nux-x64.tar.gz" :> <<"n", "o", "d", "e", "-", "v", "X", "-", "l", "i", ".", "n", "u", "x", "-", "x", "6", "4", ".", "t", "a", "r", ".", "g", "z">>)
    @@ ("node-vX-li.nux-x64.zip" :> <<"n", "o", "d", "e", "-", "v", "X", "-", "l", "i", ".", "n", "u", "x", "-", "x", "6", "4", ".", "z", "i", "p">>)
    @@ ("node-vX-li.nux-x64.superzip" :> <<"n", "o", "d", "e", "-", "v", "X", "-", "l", "i", ".", "n", "u", "x", "-", "x", "6", "4", ".", "s", "u", "p", "e", "r", "z", "i", "p">>)
    @@ ("node-vX-li.nux-a-b.tar.gz" :> <<"n", "o", "d", "e", "-", "v", "X", "-", "l", "i", ".", "n", "u", "x", "-", "a", "-", "b", ".", "t", "a", "r", ".", "g", "z">>)
    @@ ("node-vX-li.nux-a-b.zip" :> <<"n", "o", "d", "e", "-", "v", "X", "-", "l", "i", ".", "n", "u", "x", "-", "a", "-", "b", ".", "z", "i", "p">>)
    @@ ("node-vX-li.nux-a-b.superzip" :> <<"n", "o", "d", "e", "-", "v", "X", "-", "l", "i", ".", "n", "u", "x", "-", "a", "-", "b", ".", "s", "u", "p", "e", "r", "z", "i", "p">>)
    @@ ("node-8.1.2-linux-x64.tar.gz" :> <<"n", "o", "d", "e", "-", "8", ".", "1", ".", "2", "-", "l", "i", "n", "u", "x", "-", "x", "6", "4", ".", "t", "a", "r", ".", "g", "z">>)
    @@ ("node-8.1.2-linux-x64.zip" :> <<"n", "o", "d", "e", "-", "8", ".", "1", ".", "2", "-", "l", "i", "n", "u", "x", "-", "x", "6", "4", ".", "z", "i", "p">>)
    @@ ("node-8.1.2-linux-x64.superzip" :> <<"n", "o", "d", "e", "-", "8", ".", "1", ".", "2", "-", "l", "i", "n", "u", "x", "-", "x", "6", "4", ".", "s", "u", "p", "e", "r", "z", "i", "p">>)
    @@ ("node-8.1.2-linux-a-b.tar.gz" :> <<"n", "o", "d", "e", "-", "8", ".", "1", ".", "2", "-", "l", "i", "n", "u", "x", "-", "a", "-", "b", ".", "t", "a", "r", ".", "g", "z">>)
    @@ ("node-8.1.2-linux-a-b.zip" :> <<"n", "o", "d", "e", "-", "8", ".", "1", ".", "2", "-", "l", "i", "n", "u", "x", "-", "a", "-", "b", ".", "z", "i", "p">>)
    @@ ("node-8.1.2-linux-a-b.superzip" :> <<"n", "o", "d", "e", "-", "8", ".", "1", ".", "2", "-", "l", "i", "n", "u", "x", "-", "a", "-", "b", ".", "s", "u", "p", "e", "r", "z", "i", "p">>)
    @@ ("node-8.1.2-li.nux-x64.tar.gz" :> <<"n", "o", "d", "e", "-", "8", ".", "1", ".", "2", "-", "l", "i", ".", "n", "u", "x", "-", "x", "6", "4", ".", "t", "a", "r", ".", "g", "z">>)
    @@ ("node-8.1.2-li.nux-x64.zip" :> <<"n", "o", "d", "e", "-", "8", ".", "1", ".", "2", "-", "l", "i", ".", "n", "u", "x", "-", "x", "6", "4", ".", "z", "i", "p">>)
    @@ ("node-8.1.2-li.nux-x64.superzip" :> <<"n", "o", "d", "e", "-", "8", ".", "1", ".", "2", "-", "l", "i", ".", "n", "u", "x", "-", "x", "6", "4", ".", "s", "u", "p", "e", "r", "z", "i", "p">>)
    @@ ("node-8.1.2-li.nux-a-b.tar.gz" :> <<"n", "o", "d", "e", "-", "8", ".", "1", ".", "2", "-", "l", "i", ".", "n", "u", "x", "-", "a", "-", "b", ".", "t", "a", "r", ".", "g", "z">>)
    @@ ("node-8.1.2-li.nux-a-b.zip" :> <<"n", "o", "d", "e", "-", "8", ".", "1", ".", "2", "-", "l", "i", ".", "n", "u", "x", "-", "a", "-", "b", ".", "z", "i", "p">>)
    @@ ("node-8.1.2-li.nux-a-b.superzip" :> <<"n", "o", "d", "e", "-", "8", ".", "1", ".", "2", "-", "l", "i", ".", "n", "u", "x", "-", "a", "-", "b", ".", "s", "u", "p", "e", "r", "z", "i", "p">>)
    @@ ("node-8-linux-x64.tar.gz" :> <<"n", "o", "d", "e", "-", "8", "-", "l", "i", "n", "u", "x", "-", "x", "6", "4", ".", "t", "a", "r", ".", "g", "z">>)
    @@ ("node-8-linux-x64.zip" :> <<"n", "o", "d", "e", "-", "8", "-", "l", "i", "n", "u", "x", "-", "x", "6", "4", ".", "z", "i", "p">>)
    @@ ("node-8-linux-x64.superzip" :> <<"n", "o", "d", "e", "-", "8", "-", "l", "i", "n", "u", "x", "-", "x", "6", "4", ".", "s", "u", "p", "e", "r", "z", "i", "p">>)
    @@ ("node-8-linux-a-b.tar.gz" :> <<"n", "o", "d", "e", "-", "8", "-", "l", "i", "n", "u", "x", "-", "a", "-", "b", ".", "t", "a", "r", ".", "g", "z">>)
    @@ ("node-8-linux-a-b.zip" :> <<"n", "o", "d", "e", "-", "8", "-", "l", "i", "n", "u", "x", "-", "a", "-", "b", ".", "z", "i", "p">>)
    @@ ("node-8-linux-a-b.superzip" :> <<"n", "o", "d", "e", "-", "8", "-", "l", "i", "n", "u", "x", "-", "a", "-", "b", ".", "s", "u", "p", "e", "r", "z", "i", "p">>)
    @@ ("node-8-li.nux-x64.tar.gz" :> <<"n", "o", "d", "e", "-", "8", "-", "l", "i", ".", "n", "u", "x", "-", "x", "6", "4", ".", "t", "a", "r", ".", "g", "z">>)
    @@ ("node-8-li.nux-x64.zip" :> <<"n", "o", "d", "e", "-", "8", "-", "l", "i", ".", "n", "u", "x", "-", "x", "6", "4", ".", "z", "i", "p">>)
    @@ ("node-8-li.nux-x64.superzip" :> <<"n", "o", "d", "e", "-", "8", "-", "l", "i", ".", "n", "u", "x", "-", "x", "6", "4", ".", "s", "u", "p", "e", "r", "z", "i", "p">>)
    @@ ("node-8-li.nux-a-b.tar.gz" :> <<"n", "o", "d", "e", "-", "8", "-", "l", "i", ".", "n", "u", "x", "-", "a", "-", "b", ".", "t", "a", "r", ".", "g", "z">>)
    @@ ("node-8-li.nux-a-b.zip" :> <<"n", "o", "d", "e", "-", "8", "-", "l", "i", ".", "n", "u", "x", "-", "a", "-", "b", ".", "z", "i", "p">>)
    @@ ("node-8-li.nux-a-b.superzip" :> <<"n", "o", "d", "e", "-", "8", "-", "l", "i", ".", "n", "u", "x", "-", "a", "-", "b", ".", "s", "u", "p", "e", "r", "z", "i", "p">>)
    @@ ("node-08.1-linux-x64.tar.gz" :> <<"n", "o", "d", "e", "-", "0", "8", ".", "1", "-", "l", "i", "n", "u", "x", "-", "x", "6", "4", ".", "t", "a", "r", ".", "g", "z">>)
    @@ ("node-08.1-linux-x64.zip" :> <<"n", "o", "d", "e", "-", "0", "8", ".", "1", "-", "l", "i", "n", "u", "x", "-", "x", "6", "4", ".", "z", "i", "p">>)
    @@ ("node-08.1-linux-x64.superzip" :> <<"n", "o", "d", "e", "-", "0", "8", ".", "1", "-", "l", "i", "n", "u", "x", "-", "x", "6", "4", ".", "s", "u", "p", "e", "r", "z", "i", "p">>)
    @@ ("node-08.1-linux-a-b.tar.gz" :> <<"n", "o", "d", "e", "-", "0", "8", ".", "1", "-", "l", "i", "n", "u", "x", "-", "a", "-", "b", ".", "t", "a", "r", ".", "g", "z">>)
    @@ ("node-08.1-linux-a-b.zip" :> <<"n", "o", "d", "e", "-", "0", "8", ".", "1", "-", "l", "i", "n", "u", "x", "-", "a", "-", "b", ".", "z", "i", "p">>)
    @@ ("node-08.1-linux-a-b.superzip" :> <<"n", "o", "d", "e", "-", "0", "8", ".", "1", "-", "l", "i", "n", "u", "x", "-", "a", "-", "b", ".", "s", "u", "p", "e", "r", "z", "i", "p">>)
    @@ ("node-08.1-li.nux-x64.tar.gz" :> <<"n", "o", "d", "e", "-", "0", "8", ".", "1", "-", "l", "i", ".", "n", "u", "x", "-", "x", "6", "4", ".", "t", "a", "r", ".", "g", "z">>)
    @@ ("node-08.1-li.nux-x64.zip" :> <<"n", "o", "d", "e", "-", "0", "8", ".", "1", "-", "l", "i", ".", "n", "u", "x", "-", "x", "6", "4", ".", "z", "i", "p">>)
    @@ ("node-08.1-li.nux-x64.superzip" :> <<"n", "o", "d", "e", "-", "0", "8", ".", "1", "-", "l", "i", ".", "n", "u", "x", "-", "x", "6", "4", ".", "s", "u", "p", "e", "r", "z", "i", "p">>)
    @@ ("node-08.1-li.nux-a-b.tar.gz" :> <<"n", "o", "d", "e", "-", "0", "8", ".", "1", "-", "l", "i", ".", "n", "u", "x", "-", "a", "-", "b", ".", "t", "a", "r", ".", "g", "z">>)
    @@ ("node-08.1-li.nux-a-b.zip" :> <<"n", "o", "d", "e", "-", "0", "8", ".", "1", "-", "l", "i", ".", "n", "u", "x", "-", "a", "-", "b", ".", "z", "i", "p">>)
    @@ ("node-08.1-li.nux-a-b.superzip" :> <<"n", "o", "d", "e", "-", "0", "8", ".", "1", "-", "l", "i", ".", "n", "u", "x", "-", "a", "-", "b", ".", "s", "u", "p", "e", "r", "z", "i", "p">>)
    @@ ("node-X-linux-x64.tar.gz" :> <<"n", "o", "d", "e", "-", "X", "-", "l", "i", "n", "u", "x", "-", "x", "6", "4", ".", "t", "a", "r", ".", "g", "z">>)
    @@ ("node-X-linux-x64.zip" :> <<"n", "o", "d", "e", "-", "X", "-", "l", "i", "n", "u", "x", "-", "x", "6", "4", ".", "z", "i", "p">>)
    @@ ("node-X-linux-x64.superzip" :> <<"n", "o", "d", "e", "-", "X", "-", "l", "i", "n", "u", "x", "-", "x", "6", "4", ".", "s", "u", "p", "e", "r", "z", "i", "p">>)
    @@ ("node-X-linux-a-b.tar.gz" :> <<"n", "o", "d", "e", "-", "X", "-", "l", "i", "n", "u", "x", "-", "a", "-", "b", ".", "t", "a", "r", ".", "g", "z">>)
    @@ ("node-X-linux-a-b.zip" :> <<"n", "o", "d", "e", "-", "X", "-", "l", "i", "n", "u", "x", "-", "a", "-", "b", ".", "z", "i", "p">>)
    @@ ("node-X-linux-a-b.superzip" :> <<"n", "o", "d", "e", "-", "X", "-", "l", "i", "n", "u", "x", "-", "a", "-", "b", ".", "s", "u", "p", "e", "r", "z", "i", "p">>)
    @@ ("node-X-li.nux-x64.tar.gz" :> <<"n", "o", "d", "e", "-", "X", "-", "l", "i", ".", "n", "u", "x", "-", "x", "6", "4", ".", "t", "a", "r", ".", "g", "z">>)
    @@ ("node-X-li.nux-x64.zip" :> <<"n", "o", "d", "e", "-", "X", "-", "l", "i", ".", "n", "u", "x", "-", "x", "6", "4", ".", "z", "i", "p">>)
    @@ ("node-X-li.nux-x64.superzip" :> <<"n", "o", "d", "e", "-", "X", "-", "l", "i", ".", "n", "u", "x", "-", "x", "6", "4", ".", "s", "u", "p", "e", "r", "z", "i", "p">>)
    @@ ("node-X-li.nux-a-b.tar.gz" :> <<"n", "o", "d", "e", "-", "X", "-", "l", "i", ".", "n", "u", "x", "-", "a", "-", "b", ".", "t", "a", "r", ".", "g", "z">>)
    @@ ("node-X-li.nux-a-b.zip" :> <<"n", "o", "d", "e", "-", "X", "-", "l", "i", ".", "n", "u", "x", "-", "a", "-", "b", ".", "z", "i", "p">>)
    @@ ("node-X-li.nux-a-b.superzip" :> <<"n", "o", "d", "e", "-", "X", "-", "l", "i", ".", "n", "u", "x", "-", "a", "-", "b", ".", "s", "u", "p", "e", "r", "z", "i", "p">>)
    @@ ("foobar-v8.1.2-linux-x64.tar.gz" :> <<"f", "o", "o", "b", "a", "r", "-", "v", "8", ".", "1", ".", "2", "-", "l", "i", "n", "u", "x", "-", "x", "6", "4", ".", "t", "a", "r", ".", "g", "z">>)
    @@ ("node-v8.1.2-linux.tar.gz" :> <<"n", "o", "d", "e", "-", "v", "8", ".", "1", ".", "2", "-", "l", "i", "n", "u", "x", ".", "t", "a", "r", ".", "g", "z">>)
    @@ ("node-v8.1.2.tar.gz" :> <<"n", "o", "d", "e", "-", "v", "8", ".", "1", ".", "2", ".", "t", "a", "r", ".", "g", "z">>)
    @@ ("node-v8.1.2-linux-.zip" :> <<"n", "o", "d", "e", "-", "v", "8", ".", "1", ".", "2", "-", "l", "i", "n", "u", "x", "-", ".", "z", "i", "p">>)
    @@ ("node-v8.1.2-linux-x64." :> <<"n", "o", "d", "e", "-", "v", "8", ".", "1", ".", "2", "-", "l", "i", "n", "u", "x", "-", "x", "6", "4", ".">>)
    @@ ("v8.1.2-linux-x64.zip" :> <<"v", "8", ".", "1", ".", "2", "-", "l", "i", "n", "u", "x", "-", "x", "6", "4", ".", "z", "i", "p">>)
    @@ ("8" :> <<"8">>)
    @@ ("08.1" :> <<"0", "8", ".", "1">>)
    @@ ("X" :> <<"X">>)
    @@ ("v8" :> <<"v", "8">>)
    @@ ("v08.1" :> <<"v", "0", "8", ".", "1">>)
    @@ ("vX" :> <<"v", "X">>)
    @@ ("li.nux" :> <<"l", "i", ".", "n", "u", "x">>)
    @@ ("a-b" :> <<"a", "-", "b">>)
    @@ ("superzip" :> <<"s", "u", "p", "e", "r", "z", "i", "p">>)
    @@ ("node-v" :> <<"n", "o", "d", "e", "-", "v">>)
    @@ ("node-" :> <<"n", "o", "d", "e", "-">>)
    @@ ("-" :> <<"-">>)
    @@ ("." :> <<".">>)
    @@ ("armv7l" :> <<"a", "r", "m", "v", "7", "l">>)
    @@ ("armv6l" :> <<"a", "r", "m", "v", "6", "l">>)
    @@ ("i686" :> <<"i", "6", "8", "6">>)
    @@ ("i386" :> <<"i", "3", "8", "6">>)
    @@ ("i686-AT386" :> <<"i", "6", "8", "6", "-", "A", "T", "3", "8", "6">>)
    @@ ("aarch64" :> <<"a", "a", "r", "c", "h", "6", "4">>)
    @@ ("arm64" :> <<"a", "r", "m", "6", "4">>)
    @@ ("ppc" :> <<"p", "p", "c">>)
    @@ ("ppc64le" :> <<"p", "p", "c", "6", "4", "l", "e">>)
    @@ ("powerpc" :> <<"p", "o", "w", "e", "r", "p", "c">>)
    @@ ("s390" :> <<"s", "3", "9", "0">>)
    @@ ("s390x" :> <<"s", "3", "9", "0", "x">>)
    @@ ("sparc64" :> <<"s", "p", "a", "r", "c", "6", "4">>)
    @@ ("x88" :> <<"x", "8", "8">>)
    @@ ("AIX" :> <<"A", "I", "X">>)
    @@ ("Darwin" :> <<"D", "a", "r", "w", "i", "n">>)
    @@ ("Solaris" :> <<"S", "o", "l", "a", "r", "i", "s">>)
    @@ ("SunOS" :> <<"S", "u", "n", "O", "S">>)
    @@ ("i686-at386" :> <<"i", "6", "8", "6", "-", "a", "t", "3", "8", "6">>)
    @@ ("darwin" :> <<"d", "a", "r", "w", "i", "n">>)
    @@ ("solaris" :> <<"s", "o", "l", "a", "r", "i", "s">>)
    @@ ("sunos" :> <<"s", "u", "n", "o", "s">>)
    @@ ("node-v6.xz" :> <<"n", "o", "d", "e", "-", "v", "6", ".", "x", "z">>)
    @@ ("/data/local-index/old.html" :> <<"/", "d", "a", "t", "a", "/", "l", "o", "c", "a", "l", "-", "i", "n", "d", "e", "x", "/", "o", "l", "d", ".", "h", "t", "m", "l">>)
    @@ ("/data/local-index/old.html/v3" :> <<"/", "d", "a", "t", "a", "/", "l", "o", "c", "a", "l", "-", "i", "n", "d", "e", "x", "/", "o", "l", "d", ".", "h", "t", "m", "l", "/", "v", "3">>)
    @@ ("https://nodejs.org/dist/latest-v8.x/" :> <<"h", "t", "t", "p", "s", ":", "/", "/", "n", "o", "d", "e", "j", "s", ".", "o", "r", "g", "/", "d", "i", "s", "t", "/", "l", "a", "t", "e", "s", "t", "-", "v", "8", ".", "x", "/">>)
    @@ ("v7.10.0" :> <<"v", "7", ".", "1", "0", ".", "0">>)
    @@ ("old.html" :> <<"o", "l", "d", ".", "h", "t", "m", "l">>)
    @@ ("node-v8.1.2-linux-arm64.tar.gz" :> <<"n", "o", "d", "e", "-", "v", "8", ".", "1", ".", "2", "-", "l", "i", "n", "u", "x", "-", "a", "r", "m", "6", "4", ".", "t", "a", "r", ".", "g", "z">>)
    @@ ("v3" :> <<"v", "3">>)
    @@ ("https://nodejs.org/dist/latest-v4.x" :> <<"h", "t", "t", "p", "s", ":", "/", "/", "n", "o", "d", "e", "j", "s", ".", "o", "r", "g", "/", "d", "i", "s", "t", "/", "l", "a", "t", "e", "s", "t", "-", "v", "4", ".", "x">>)
    @@ (" v7.10.0 " :> <<" ", "v", "7", ".", "1", "0", ".", "0", " ">>)
    @@ ("  " :> <<" ", " ">>)
    @@ ("style.css" :> <<"s", "t", "y", "l", "e", ".", "c", "s", "s">>)
    @@ ("node-v8.1.2-win-x64.zip" :> <<"n", "o", "d", "e", "-", "v", "8", ".", "1", ".", "2", "-", "w", "i", "n", "-", "x", "6", "4", ".", "z", "i", "p">>)
    @@ ("node.tar.gz" :> <<"n", "o", "d", "e", ".", "t", "a", "r", ".", "g", "z">>)
    @@ ("node.zip" :> <<"n", "o", "d", "e", ".", "z", "i", "p">>)
    @@ ("node-v8.1.2-linux-x64.tar.xz" :> <<"n", "o", "d", "e", "-", "v", "8", ".", "1", ".", "2", "-", "l", "i", "n", "u", "x", "-", "x", "6", "4", ".", "t", "a", "r", ".", "x", "z">>)
    @@ ("node-v8.1.2-linux-x64" :> <<"n", "o", "d", "e", "-", "v", "8", ".", "1", ".", "2", "-", "l", "i", "n", "u", "x", "-", "x", "6", "4">>)
    @@ ("node-v8.1.2-win-x64" :> <<"n", "o", "d", "e", "-", "v", "8", ".", "1", ".", "2", "-", "w", "i", "n", "-", "x", "6", "4">>)
    @@ ("node" :> <<"n", "o", "d", "e">>)
    @@ ("node-v8.1.2-linux-x64.tar" :> <<"n", "o", "d", "e", "-", "v", "8", ".", "1", ".", "2", "-", "l", "i", "n", "u", "x", "-", "x", "6", "4", ".", "t", "a", "r">>)

\* The text whose spelling is cs.
Str(cs) == CHOOSE s \in DOMAIN Chars : Chars[s] = cs

----------------------------------------------------------------------------
\* Characters and regular-expression pieces.

Digits == <<"0", "1", "2", "3", "4", "5", "6", "7", "8", "9">>
IsDigit(c) == \E k \in 1..Len(Digits) : Digits[k] = c
DigitVal(c) == (CHOOSE k \in 1..Len(Digits) : Digits[k] = c) - 1

UpperCase == <<"A","B","C","D","E","F","G","H","I","J","K","L","M",
               "N","O","P","Q","R","S","T","U","V","W","X","Y","Z">>
LowerCase == <<"a","b","c","d","e","f","g","h","i","j","k","l","m",
               "n","o","p","q","r","s","t","u","v","w","x","y","z">>

\* str.lower()
lower(cs) ==
    [i \in 1..Len(cs) |->
        IF \E k \in 1..Len(UpperCase) : UpperCase[k] = cs[i]
        THEN LowerCase[CHOOSE k \in 1..Len(UpperCase) : UpperCase[k] = cs[i]]
        ELSE cs[i]]

RECURSIVE int(_)
\* int(s) of a run of digits
int(cs) ==
    IF cs = <<>> THEN 0
    ELSE 10 * int(SubSeq(cs, 1, Len(cs) - 1)) + DigitVal(cs[Len(cs)])

RECURSIVE DigitRun(_, _)
\* \d* at position i: the number of digits it takes
DigitRun(cs, i) ==
    IF i <= Len(cs) /\ IsDigit(cs[i]) THEN 1 + DigitRun(cs, i + 1) ELSE 0

RECURSIVE RunOfNot(_, _, _)
\* [^c]* at position i: the number of characters it takes
RunOfNot(cs, c, i) ==
    IF i <= Len(cs) /\ cs[i] # c THEN 1 + RunOfNot(cs, c, i + 1) ELSE 0

StartsWith(cs, pre) == Len(cs) >= Len(pre) /\ SubSeq(cs, 1, Len(pre)) = pre
\* str.endswith
endswith(cs, suf) ==
    Len(cs) >= Len(suf) /\ SubSeq(cs, Len(cs) - Len(suf) + 1, Len(cs)) = suf

----------------------------------------------------------------------------
\* damnode.py: versions

\* The tuple comparison a < b of two version tuples (None orders lowest).
VersionLess(a, b) ==
    \/ a[1] < b[1]
    \/ a[1] = b[1] /\ a[2] < b[2]
    \/ a[1] = b[1] /\ a[2] = b[2] /\ a[3] < b[3]

\* re.match of the pattern of _parse_version with the suffix "$" or "/?$" on
\* the characters of text, and the tuple made of its groups; ok = FALSE stands for
\* the ValueError.  In a Python pattern $ matches at the end of the text and
\* also before a newline that ends the text.
match_version(text, suffix) ==
    LET \* (\.(\d+))? at position i: the number of digits of the inner group
        dotted(cs, i) == IF i <= Len(cs) /\ cs[i] = "." THEN DigitRun(cs, i + 1) ELSE 0
        \* the position after a group of n digits that starts at i
        skip(i, n) == IF n > 0 THEN i + 1 + n ELSE i
        opt_int(cs, i, n) == IF n = 0 THEN NoInt ELSE int(SubSeq(cs, i, i + n - 1))
        suffix_ok(rest) ==
            IF suffix = "$"
            THEN rest \in {<<>>, <<"\n">>}
            ELSE rest \in {<<>>, <<"\n">>, <<"/">>, <<"/", "\n">>}
        \* major is the n1 digits from i1 on, minor the n2 digits and build
        \* the n3 digits that follow, each after its dot
        groups(cs, i1, n1, n2, n3) ==
            IF n1 > 0 /\ suffix_ok(SubSeq(cs, skip(skip(i1 + n1, n2), n3), Len(cs)))
            THEN [ok |-> TRUE,
                  key |-> <<int(SubSeq(cs, i1, i1 + n1 - 1)),
                            opt_int(cs, i1 + n1 + 1, n2),
                            opt_int(cs, skip(i1 + n1, n2) + 1, n3)>>]
            ELSE [ok |-> FALSE, key |-> <<>>]
        build(cs, i1, n1, n2) == groups(cs, i1, n1, n2, dotted(cs, skip(i1 + n1, n2)))
        minor(cs, i1, n1) == build(cs, i1, n1, dotted(cs, i1 + n1))
        major(cs, i1) == minor(cs, i1, DigitRun(cs, i1))
        v(cs) == major(cs, IF Len(cs) >= 1 /\ cs[1] = "v" THEN 2 ELSE 1)
    IN  v(text)

\* _parse_version(ver_str, suffix=...)
parse_version(ver_str, suffix) == match_version(Chars[ver_str], suffix)

min_version == <<4, 0, 0>>

\* parse_title of version_url_dict
parse_version_title(title) ==
    LET at_least(r) ==
            IF r.ok /\ VersionLess(r.key, min_version) THEN [ok |-> FALSE, key |-> <<>>] ELSE r
    IN  at_least(parse_version(title, "/?$"))

\* DamNode.parse_package_title:
\*   ^node-v[^-]+-(?P<platf>[^-]+)-(?P<arch>[^\.]+).(?P<fmt>.*)$
\* The dot before fmt is not escaped and takes any character.
parse_package_title(title) ==
    LET \* arch, any character, fmt in r: arch is the na characters before
        \* the first dot, or all but the last character when r has no dot
        groups(platf, r, na) ==
            IF na > 0
            THEN [ok |-> TRUE,
                  key |-> <<Str(platf), Str(SubSeq(r, 1, na)), Str(SubSeq(r, na + 2, Len(r)))>>]
            ELSE [ok |-> FALSE, key |-> <<>>]
        arch(platf, r, k) == groups(platf, r, IF k < Len(r) THEN k ELSE Len(r) - 1)
        \* d1 and d2 are the places of the '-' after the version and after platf
        platf(cs, d1, d2) ==
            IF d1 > 7 /\ d1 <= Len(cs) /\ d2 > d1 + 1 /\ d2 <= Len(cs)
            THEN arch(SubSeq(cs, d1 + 1, d2 - 1), SubSeq(cs, d2 + 1, Len(cs)),
                      RunOfNot(SubSeq(cs, d2 + 1, Len(cs)), ".", 1))
            ELSE [ok |-> FALSE, key |-> <<>>]
        version(cs, d1) == platf(cs, d1, d1 + 1 + RunOfNot(cs, "-", d1 + 1))
        node(cs) ==
            IF StartsWith(cs, <<"n", "o", "d", "e", "-", "v">>)
            THEN version(cs, 7 + RunOfNot(cs, "-", 7))
            ELSE [ok |-> FALSE, key |-> <<>>]
    IN  node(Chars[title])

\* The two parse_title functions on every text of the model, evaluated once.
VersionTitleParse == [title \in DOMAIN Chars |-> parse_version_title(title)]
PackageTitleParse == [title \in DOMAIN Chars |-> parse_package_title(title)]

----------------------------------------------------------------------------
\* damnode.py: the state

VARIABLES
    index,      \* the remote index: the version directories in listing order,
                \* each [title, pkgs], pkgs the package links of its own page
    system,     \* platform.system() of the host
    machine,    \* platform.machine() of the host
    node_dir,   \* TRUE iff DamNode.node_dir exists
    prefix,     \* the package URLs whose members were extracted into sys.prefix
    argv,       \* the last command and its arguments
    result      \* what the last command did

\* damnode2.py
VARIABLES
    enable_cache,   \* Damnode.enable_cache
    files,          \* the files of the cache directories and of the local index
    call,           \* the call of Damnode.download_package or Damnode.install
                    \* that is running or ran last
    completed,      \* the cached files a download_package with caching
                    \* enabled has completed with
    kills,          \* how often the process was killed
    cache_dir,      \* Damnode.cache_dir
    isdir           \* the directories that exist

\* A call of one function of the two modules on its own
VARIABLES
    arg,            \* what it is given
    ret             \* <<what it returns or raises>>, <<>> before the call

fn_vars == <<arg, ret>>

vars == <<index, system, machine, node_dir, prefix, argv, result,
          enable_cache, files, call, completed, kills, cache_dir, isdir, arg, ret>>
damnode_vars == <<index, node_dir, argv, result>>
damnode2_vars == <<enable_cache, files, call, completed, kills, cache_dir, isdir>>

index_url == "https://nodejs.org/dist/"
NoUrl == <<>>

\* urlparse.urljoin(url, href) for a relative href: one more path segment.
urljoin(url, href) == Append(url, href)
\* osp.basename(url)
basename(url) == url[Len(url)]

\* DamNode.http_get(url): the links <a href=href>title</a> of the page at url.
\* The index page links every version directory by its title; the page of a
\* version directory links every package by its file name.
http_get(url) ==
    LET page(pkgs) == [j \in 1..Len(pkgs) |-> [title |-> pkgs[j], href |-> pkgs[j]]]
    IN  IF url = <<index_url>>
        THEN [i \in 1..Len(index) |-> [title |-> index[i].title, href |-> index[i].title]]
        ELSE page(index[CHOOSE i \in 1..Len(index) : index[i].title = url[2]].pkgs)

\* dct[key] = val of an OrderedDict, kept as a sequence of <<key, val>>:
\* a key already there keeps its place and takes the new value.
DictSet(dct, key, val) ==
    IF \E i \in 1..Len(dct) : dct[i][1] = key
    THEN [i \in 1..Len(dct) |-> IF dct[i][1] = key THEN <<key, val>> ELSE dct[i]]
    ELSE Append(dct, <<key, val>>)

DictKeys(dct) == {dct[i][1] : i \in 1..Len(dct)}
DictGet(dct, key) == dct[CHOOSE i \in 1..Len(dct) : dct[i][1] = key][2]

\* DamNode.get_url_dict(url, parse_title), ignore_parse_error=True;
\* parse_title is "version" (version_url_dict) or "package"
\* (get_package_url_dict).
get_url_dict(url, parse_title) ==
    LET parse(title) == IF parse_title = "version"
                        THEN VersionTitleParse[title]
                        ELSE PackageTitleParse[title]
        \* one turn of the loop: r is parse_title(title) of the link
        put(dct, link, r) ==
            IF r.ok /\ link.href # "" THEN DictSet(dct, r.key, urljoin(url, link.href)) ELSE dct
        RECURSIVE dict(_, _)
        dict(links, n) ==
            IF n = 0 THEN <<>>
            ELSE put(dict(links, n - 1), links[n], parse(links[n].title))
        all(links) == dict(links, Len(links))
    IN  all(http_get(url))

version_url_dict == get_url_dict(<<index_url>>, "version")
get_package_url_dict(version_url) == get_url_dict(version_url, "package")

RECURSIVE sorted(_)
\* sorted(keys) of a set of version tuples
sorted(S) ==
    LET first(least) == <<least>> \o sorted(S \ {least})
    IN  IF S = {} THEN <<>>
        ELSE first(CHOOSE a \in S : \A b \in S \ {a} : VersionLess(a, b))

\* reversed() left out: the keys are tried in ascending order
not_reversed(seq) == seq

reversed(seq) == [i \in 1..Len(seq) |-> seq[Len(seq) + 1 - i]]

\* DamNode.match(actual_val, val) on texts: not val or val == actual_val
match(actual_val, val) == val \in {None, ""} \/ val = actual_val

\* DamNode.match(actual_val, val) on the numbers of a version
match_number(actual_val, val) == val \in {NoInt, 0} \/ val = actual_val

\* version_match of find_version_url; NoVersion is the absent VERSION
NoVersion == <<>>
version_match(actual_ver, ver) ==
    \/ ver = NoVersion
    \/ /\ match_number(actual_ver[1], ver[1])
       /\ match_number(actual_ver[2], ver[2])
       /\ match_number(actual_ver[3], ver[3])

\* DamNode.find_version_url(version)
find_version_url(version) ==
    LET first(ver_url_dict, keys, hits) ==
            IF hits = {} THEN NoUrl
            ELSE DictGet(ver_url_dict, keys[CHOOSE i \in hits : \A j \in hits : i <= j])
        loop(ver_url_dict, keys) ==
            first(ver_url_dict, keys, {i \in 1..Len(keys) : version_match(keys[i], version)})
        for(ver_url_dict) == loop(ver_url_dict, reversed(sorted(DictKeys(ver_url_dict))))
    IN  for(version_url_dict)

\* DamNode.iter_package_urls(version_url, platf, arch, fmt), as a list
iter_package_urls(version_url, platf, arch, fmt) ==
    SelectSeq(get_package_url_dict(version_url),
              LAMBDA e : /\ match(e[1][1], platf)
                         /\ match(e[1][2], arch)
                         /\ match(e[1][3], fmt))

\* re.match(pattern, value) for the patterns of the detection mappings
re_match(pattern, cs) ==
    CASE pattern = "^windows$" -> cs = Chars["windows"]
      [] pattern = "^x86[^\\d]64$" ->
            Len(cs) = 6 /\ StartsWith(cs, <<"x", "8", "6">>) /\ ~IsDigit(cs[4])
                        /\ SubSeq(cs, 5, 6) = <<"6", "4">>
      [] pattern = "^amd64$" -> cs = Chars["amd64"]
      [] pattern = "^x86[^\\d]" ->
            Len(cs) >= 4 /\ StartsWith(cs, <<"x", "8", "6">>) /\ ~IsDigit(cs[4])

\* DamNode.map(mapping, value)
map(mapping, value) ==
    LET first(hits) ==
            IF hits = {} THEN value
            ELSE mapping[CHOOSE i \in hits : \A j \in hits : i <= j][2]
        loop(cs) == first({i \in 1..Len(mapping) : re_match(mapping[i][1], cs)})
    IN  loop(Chars[value])

\* DamNode.detect_platf
detect_platf ==
    map(<< <<"^windows$", "win">> >>, Str(lower(Chars[system])))

\* DamNode.detect_arch
detect_arch ==
    map(<< <<"^x86[^\\d]64$", "x64">>, <<"^amd64$", "x64">>, <<"^x86[^\\d]", "x86">> >>,
        Str(lower(Chars[machine])))

\* DamNode.detect_fmt(platf)
detect_fmt(platf) == IF platf = "win" THEN "zip" ELSE "tar.gz"

\* Damnode._detect(mapping, value)
Damnode_detect(mapping, value) == map(mapping, Str(lower(Chars[value])))

\* Damnode.detect_architecture
Damnode_detect_architecture ==
    Damnode_detect(<< <<"^x86[^\\d]64$", "x64">>, <<"^amd64$", "x64">>,
                      <<"^x86[^\\d]", "x86">> >>,
                   machine)

\* Damnode.detect_platform_format: after platf is detected, the line that
\* chooses fmt reads the name plat, which nothing defines, and the call ends
\* with a NameError whatever the system is.
Damnode_detect_platform_format ==
    LET fmt(platf) == [ok |-> FALSE, err |-> "NameError"]
    IN  fmt(Damnode_detect(<< <<"^windows$", "win">> >>, system))

\* DamNode.installed
installed == node_dir

----------------------------------------------------------------------------
\* damnode.py: the commands

\* What the last command did; the fields a command does not reach keep
\* these values.
NoResult ==
    [out |-> "none", platf |-> None, arch |-> None, fmt |-> None,
     version_url |-> NoUrl, package_urls |-> <<>>, downloaded |-> NoUrl,
     versions |-> <<>>, prompted |-> FALSE]

\* detection that does not look at what the caller gave
detect_always(val, detect, detected) ==
    IF detect THEN detected ELSE val

\* 'if val is None and detect: val = damn.detect_...()' of cmd_install
detect_if_none(val, detect, detected) ==
    IF val = None /\ detect THEN detected ELSE val

\* cmd_install(platf, arch, fmt, detect, version, list_versions=False).
\* out names the way the command ended:
\*   AlreadyInstalled, VersionNotFound, PackageNotFound, MoreThanOne: the
\*     DamNodeError of that name;
\*   IndexError: install_package extracted a tar.gz into sys.prefix and then
\*     took os.listdir(tdir)[0] of its empty temporary directory;
\*   NotYetInstalled: install_package unpacked a zip into its temporary
\*     directory, removed it, and the closing nrun(['npm', ...]) found
\*     node_dir missing;
\*   NotImplementedError: install_package does not know the file's suffix.
cmd_install(platf, arch, fmt, detect, version) ==
    LET \* damn.install_package(package_url) and the closing nrun
        install_package(res, package_url, out) ==
            /\ result' = [res EXCEPT !.out = out, !.downloaded = package_url]
            /\ prefix' = IF out = "IndexError" THEN prefix \cup {package_url} ELSE prefix
        suffix(package_file) ==
            IF endswith(package_file, Chars[".tar.gz"]) THEN "IndexError"
            ELSE IF endswith(package_file, Chars[".zip"]) THEN "NotYetInstalled"
            ELSE "NotImplementedError"
        error(res, out) == result' = [res EXCEPT !.out = out] /\ UNCHANGED prefix
        select(res) ==
            IF res.version_url = NoUrl THEN error(res, "VersionNotFound")
            ELSE IF Len(res.package_urls) = 0 THEN error(res, "PackageNotFound")
            ELSE IF Len(res.package_urls) > 1 THEN error(res, "MoreThanOne")
            ELSE install_package(res, res.package_urls[1],
                                 suffix(Chars[basename(res.package_urls[1])]))
        urls(found) == [i \in 1..Len(found) |-> found[i][2]]
        search(platf2, arch2, fmt2, version_url) ==
            select([NoResult EXCEPT
                       !.platf = platf2, !.arch = arch2, !.fmt = fmt2,
                       !.version_url = version_url,
                       !.package_urls =
                           IF version_url = NoUrl THEN <<>>
                           ELSE urls(iter_package_urls(version_url, platf2, arch2, fmt2))])
        find(platf2, arch2, fmt2) ==
            search(platf2, arch2, fmt2,
                   find_version_url(IF version = None THEN NoVersion
                                    ELSE parse_version(version, "$").key))
        detected(platf2, arch2) ==
            find(platf2, arch2, detect_if_none(fmt, detect, detect_fmt(platf2)))
    IN  /\ argv' = [op |-> "install", platf |-> platf, arch |-> arch, fmt |-> fmt,
                    detect |-> detect, version |-> version]
        /\ UNCHANGED <<index, system, machine, node_dir, damnode2_vars, fn_vars>>
        /\ IF installed
           THEN /\ result' = [NoResult EXCEPT !.out = "AlreadyInstalled"]
                /\ UNCHANGED prefix
           ELSE detected(detect_if_none(platf, detect, detect_platf),
                         detect_if_none(arch, detect, detect_arch))

\* cmd_install(..., list_versions=True): prints the versions, newest first.
cmd_install_list_versions ==
    /\ argv' = [op |-> "list-versions"]
    /\ result' = [NoResult EXCEPT !.out = "listed",
                                  !.versions = reversed(sorted(DictKeys(version_url_dict)))]
    /\ UNCHANGED <<index, system, machine, node_dir, prefix, damnode2_vars, fn_vars>>

\* cmd_uninstall(yes); answer is what the user types at the prompt.
\* 'abort=True' is an argument of str.format, not of click.confirm, so
\* click.confirm returns the answer and the command goes on.
cmd_uninstall(yes, answer) ==
    /\ argv' = [op |-> "uninstall", yes |-> yes, answer |-> answer]
    /\ node_dir' = FALSE          \* _rmtree(damn.node_dir); ENOENT is ignored
    /\ result' = [NoResult EXCEPT !.out = "removed", !.prompted = ~yes]
    /\ UNCHANGED <<index, system, machine, prefix, damnode2_vars, fn_vars>>

----------------------------------------------------------------------------
\* damnode2.py: class Damnode -- texts and paths

\* Damnode.default_cache_dir, and the directory tempfile.mkdtemp() makes
default_cache_dir == "~/.cache/damnode2"
mkdtemp == "/tmp/tmpdir"
NoPath == <<>>

\* Damnode.all_package_suffixes
all_package_suffixes == <<".gz", ".msi", ".pkg", ".xz", ".zip">>

\* Damnode.has_package_suffix(link)
has_package_suffix(link) ==
    \E i \in 1..Len(all_package_suffixes) :
        endswith(Chars[link], Chars[all_package_suffixes[i]])

RECURSIVE rfind(_, _)
\* str.rfind(c) + 1: the place of the last c of cs, 0 when it has none
rfind(cs, c) ==
    IF cs = <<>> THEN 0
    ELSE IF cs[Len(cs)] = c THEN Len(cs)
    ELSE rfind(SubSeq(cs, 1, Len(cs) - 1), c)

RECURSIVE rstrip(_, _)
\* str.rstrip(c)
rstrip(cs, c) ==
    IF cs # <<>> /\ cs[Len(cs)] = c THEN rstrip(SubSeq(cs, 1, Len(cs) - 1), c) ELSE cs

\* osp.basename(link): what follows the last '/'
osp_basename(link) ==
    LET tail(cs) == SubSeq(cs, rfind(cs, "/") + 1, Len(cs))
    IN  Str(tail(Chars[link]))

\* osp.dirname(link): what precedes the last '/', without trailing '/'
\* unless it is made of '/' only
osp_dirname(link) ==
    LET strip(head, stripped) == IF stripped = <<>> THEN head ELSE stripped
        head(cs) == strip(SubSeq(cs, 1, rfind(cs, "/")),
                          rstrip(SubSeq(cs, 1, rfind(cs, "/")), "/"))
    IN  Str(head(Chars[link]))

\* A file of the file system is named by its directory and its file name;
\* osp.join(cache_dir, name) names a file of the cache directory, and a link
\* names the file osp.dirname(link)/osp.basename(link).
osp_join(dir, name) == <<dir, name>>
path_of(link) == <<osp_dirname(link), osp_basename(link)>>

\* tempfile.mkstemp(prefix=name + '.download-', dir=cache_dir): a file of the
\* directory that is not there yet; its third part stands for the random
\* part of its name.
mkstemp(fs, cached_file) ==
    <<cached_file[1], cached_file[2],
      1 + Cardinality({p \in DOMAIN fs : Len(p) = 3})>>

\* The file system as a function from the files that exist to their content:
\* body names where the bytes come from, len counts the chunks written.
write(fs, path, file) ==
    [p \in DOMAIN fs \cup {path} |-> IF p = path THEN file ELSE fs[p]]
\* os.remove(path)
remove(fs, path) == [p \in DOMAIN fs \ {path} |-> fs[p]]
\* os.rename(src, dst)
rename(fs, src, dst) ==
    [p \in (DOMAIN fs \ {src}) \cup {dst} |-> IF p = dst THEN fs[src] ELSE fs[p]]
\* shutil.rmtree(dir)
rmtree(fs, dir) == [p \in {q \in DOMAIN fs : q[1] # dir} |-> fs[p]]

\* osp.isfile(path) answering that there is no such file, whatever is there
isfile_never(path) == FALSE

\* osp.isfile(path)
osp_isfile(path) == path \in DOMAIN files

\* Damnode.parse_version(name): _version_re is the pattern of _parse_version
\* with the suffix $
Damnode_parse_version(name) == parse_version(name, "$")

\* Damnode.parse_package_name(name), ok = FALSE standing for the ValueError
\* and err for its message: "suffix" for 'suffix must be one of', "regex" for
\* 'it does not match regex', "" for the ValueError without message that
\* parse_version raises; _package_re is
\*   ^node-(?P<version>[^-]+)-(?P<platform>[^-]+)-(?P<arch>[^\.]+)\.(?P<format>.+)$
parse_package_name(name) ==
    LET ValueError(err) ==
            [ok |-> FALSE, version |-> <<>>, platf |-> None, arch |-> None, fmt |-> None,
             err |-> err]
        matched(ver, platf, arch, fmt) ==
            IF ver.ok
            THEN [ok |-> TRUE, version |-> ver.key, platf |-> platf, arch |-> arch, fmt |-> fmt,
                  err |-> None]
            ELSE ValueError("")
        \* arch, the dot, format in r: arch is the na characters before the first dot
        groups(version, platf, r, na) ==
            IF na > 0 /\ na + 2 <= Len(r)
            THEN matched(Damnode_parse_version(Str(version)), Str(platf),
                         Str(SubSeq(r, 1, na)), Str(SubSeq(r, na + 2, Len(r))))
            ELSE ValueError("regex")
        \* d1 and d2 are the places of the '-' after version and after platform
        platform(cs, d1, d2) ==
            IF d1 > 6 /\ d1 <= Len(cs) /\ d2 > d1 + 1 /\ d2 <= Len(cs)
            THEN groups(SubSeq(cs, 6, d1 - 1), SubSeq(cs, d1 + 1, d2 - 1),
                        SubSeq(cs, d2 + 1, Len(cs)),
                        RunOfNot(SubSeq(cs, d2 + 1, Len(cs)), ".", 1))
            ELSE ValueError("regex")
        version(cs, d1) == platform(cs, d1, d1 + 1 + RunOfNot(cs, "-", d1 + 1))
        node(cs) ==
            IF StartsWith(cs, <<"n", "o", "d", "e", "-">>)
            THEN version(cs, 6 + RunOfNot(cs, "-", 6))
            ELSE ValueError("regex")
    IN  IF has_package_suffix(name) THEN node(Chars[name]) ELSE ValueError("suffix")

----------------------------------------------------------------------------
\* damnode2.py: read_links and HtmlLinksParser.  Links are spelled as
\* characters here.

\* The characters in the order of their codes
Ascii ==
    <<" ", "-", ".", "/", "0", "1", "2", "3", "4", "5", "6", "7", "8", "9", ":">>
    \o UpperCase \o <<"_">> \o LowerCase
ord(c) == CHOOSE i \in 1..Len(Ascii) : Ascii[i] = c

RECURSIVE str_less(_, _)
\* a < b of two str
str_less(a, b) ==
    IF a = <<>> THEN b # <<>>
    ELSE IF b = <<>> THEN FALSE
    ELSE IF a[1] = b[1] THEN str_less(Tail(a), Tail(b))
    ELSE ord(a[1]) < ord(b[1])

\* sorted(list) of a list of distinct str
sorted_list(list) ==
    CHOOSE s \in [1..Len(list) -> {list[i] : i \in 1..Len(list)}] :
        \A i \in 1..Len(list) - 1 : str_less(s[i], s[i + 1])

\* osp.join(link, e) of a link that does not end with '/' and a file name
join(link, name) == link \o <<"/">> \o name

Whitespace == {" ", "\t", "\n"}
RECURSIVE lstrip(_)
lstrip(cs) == IF cs # <<>> /\ cs[1] \in Whitespace THEN lstrip(Tail(cs)) ELSE cs
RECURSIVE strip(_)
\* str.strip()
strip(cs) ==
    IF cs # <<>> /\ cs[Len(cs)] \in Whitespace
    THEN strip(SubSeq(cs, 1, Len(cs) - 1))
    ELSE lstrip(cs)

\* url has a scheme
has_scheme(url) == \E i \in 1..Len(url) - 2 : SubSeq(url, i, i + 2) = <<":", "/", "/">>

\* urlparse.urljoin(base, url) of the standard library, for a base with a
\* path and a url that is absolute or is a relative path without a leading
\* '/' and without dot segments: the relative path replaces what follows
\* the last '/' of the base
urlparse_urljoin(base, url) ==
    IF has_scheme(url) THEN url ELSE SubSeq(base, 1, rfind(base, "/")) \o url

\* The values of the href attributes HtmlLinksParser.handle_starttag looks
\* at, in the order of the document: html is the start tags of the document,
\* each [tag, attrs], attrs its <<name, value>> pairs in lower case, the
\* value None for an attribute without value.
RECURSIVE hrefs(_)
hrefs(html) ==
    IF html = <<>> THEN <<>>
    ELSE (IF Head(html).tag = "a"
          THEN SelectSeq(Head(html).attrs, LAMBDA a : a[1] = "href")
          ELSE <<>>)
         \o hrefs(Tail(html))

RECURSIVE handle_starttag(_, _)
\* HtmlLinksParser.links after these href attributes
handle_starttag(url, attrs) ==
    IF attrs = <<>> THEN <<>>
    ELSE (IF strip(Chars[Head(attrs)[2]]) = <<>>
          THEN <<>>
          ELSE <<urlparse_urljoin(url, strip(Chars[Head(attrs)[2]]))>>)
         \o handle_starttag(url, Tail(attrs))

\* HtmlLinksParser(url, html).links; value.strip() of an attribute without
\* value raises AttributeError
HtmlLinksParser(url, html) ==
    LET feed(attrs) ==
            IF \E i \in 1..Len(attrs) : attrs[i][2] = None
            THEN [out |-> "AttributeError", links |-> <<>>]
            ELSE [out |-> "return", links |-> handle_starttag(url, attrs)]
    IN  feed(hrefs(html))

\* What os.listdir(link) returns for the directory of the model
listdir == <<"v7.10.0", "old.html", "node-v8.1.2-linux-arm64.tar.gz">>

\* requests.get(link): the response, url the URL after the redirects
requests_get(loc) ==
    [url |-> IF loc.get = "redirected" THEN Chars[loc.link] \o <<"/">> ELSE Chars[loc.link],
     text |-> loc.html]

\* Damnode.read_links(link) at a location loc: link is the text given,
\* listdir and open are "ok" or the errno os.listdir(link) and open(link)
\* raise, get is how requests.get(link) ends, html is the document read.
\* The result: out is "return" or what is raised, links what is returned,
\* tried the calls made.
read_links(loc) ==
    LET raise(err, tried) == [out |-> err, links |-> <<>>, tried |-> tried]
        read_html(r, tried) == [out |-> r.out, links |-> r.links, tried |-> tried]
    IN  IF has_package_suffix(loc.link)
        THEN [out |-> "return", links |-> <<Chars[loc.link]>>, tried |-> <<>>]
        ELSE IF loc.listdir = "ok"
        THEN [out |-> "return",
              links |-> sorted_list([i \in 1..Len(listdir) |->
                                        join(Chars[loc.link], Chars[listdir[i]])]),
              tried |-> <<"listdir">>]
        ELSE IF loc.listdir \notin {"ENOENT", "ENOTDIR"}
        THEN raise(loc.listdir, <<"listdir">>)
        ELSE IF loc.open = "ok"
        THEN read_html(HtmlLinksParser(Chars[loc.link], loc.html), <<"listdir", "open">>)
        ELSE IF loc.open # "ENOENT"
        THEN raise(loc.open, <<"listdir", "open">>)
        ELSE IF loc.get = "ConnectionError"
        THEN raise("ConnectionError", <<"listdir", "open", "get">>)
        ELSE read_html(HtmlLinksParser(Chars[loc.link], requests_get(loc).text),
                       <<"listdir", "open", "get">>)

----------------------------------------------------------------------------
\* damnode2.py and damnode.py: the extraction of an archive.  A path is the
\* sequence of its names; the members of an archive are relative paths, what
\* is written are paths from the root.

RECURSIVE commonprefix(_, _)
\* the number of leading names two paths share
commonprefix(a, b) ==
    IF a # <<>> /\ b # <<>> /\ a[1] = b[1] THEN 1 + commonprefix(Tail(a), Tail(b)) ELSE 0

\* osp.relpath(path, start) of two relative paths without dot names
relpath(path, start) ==
    LET curdir(rel_list) == IF rel_list = <<>> THEN <<".">> ELSE rel_list
        rel_list(i) == [k \in 1..(Len(start) - i) |-> ".."] \o SubSeq(path, i + 1, Len(path))
    IN  curdir(rel_list(commonprefix(path, start)))

RECURSIVE normpath(_)
\* Where a path from the root leads: '.' stays, '..' goes up, not above the root
normpath(path) ==
    LET step(head, name) ==
            IF name = "." THEN head
            ELSE IF name = ".." THEN SubSeq(head, 1, Len(head) - 1)
            ELSE Append(head, name)
    IN  IF path = <<>> THEN <<>>
        ELSE step(normpath(SubSeq(path, 1, Len(path) - 1)), path[Len(path)])

\* sys.prefix
sys_prefix == <<"usr", "local">>
\* the directory of _temp_dir()
tdir == <<"tmp", "tmpdir">>

\* _rmtree(dirname): what is left of the paths written
rmtree_paths(written, dirname) ==
    {path \in written : SubSeq(path, 1, Len(dirname)) # dirname}

\* osp.basename(file[:-n]): the name of the archive without its suffix
base_dir(file, n) == Str(SubSeq(Chars[osp_basename(file)], 1, Len(Chars[osp_basename(file)]) - n))

\* Damnode.install_tgz_package(tgz_file, prefix) on an archive with these
\* members, target being the prefix: the paths written.  TarFile.extract(member, prefix) writes at
\* osp.join(prefix, member.name).
install_tgz_package(tgz_file, members, target) ==
    {normpath(target \o relpath(member, <<base_dir(tgz_file, 7)>>)) : member \in members}

\* Damnode.install_zip_package(zip_file, prefix): ZipFile.extract(in_file,
\* out_file) writes the member under the directory out_file, at its own name
\* without empty, '.' and '..' names.
install_zip_package(zip_file, members, target) ==
    {normpath(target \o relpath(in_file, <<base_dir(zip_file, 4)>>)
              \o SelectSeq(in_file, LAMBDA name : name \notin {"", ".", ".."})) :
        in_file \in members}

\* Damnode.install_package(filename, prefix): how it ends and what it wrote
install_package_writes(filename, members, target) ==
    IF endswith(Chars[filename], Chars[".tar.gz"])
    THEN [out |-> "return", written |-> install_tgz_package(filename, members, target)]
    ELSE IF endswith(Chars[filename], Chars[".zip"])
    THEN [out |-> "return", written |-> install_zip_package(filename, members, target)]
    ELSE [out |-> "ValueError", written |-> {}]

\* DamNode.install_package(package_file) of damnode.py: a tar.gz is
\* extracted into sys.prefix like in install_tgz_package, and then
\* os.listdir(tdir)[0] of the empty temporary directory raises IndexError; a
\* zip is extracted into the temporary directory, which is removed at the
\* end.  written is what is there after the call.
DamNode_install_package(package_file, members) ==
    IF endswith(Chars[package_file], Chars[".tar.gz"])
    THEN [out |-> "IndexError",
          written |-> install_tgz_package(package_file, members, sys_prefix)]
    ELSE IF endswith(Chars[package_file], Chars[".zip"])
    THEN [out |-> IF members = {} THEN "IndexError" ELSE "return",
          written |-> rmtree_paths({tdir \o member : member \in members}, tdir)]
    ELSE [out |-> "NotImplementedError", written |-> {}]

----------------------------------------------------------------------------
\* damnode2.py: class Damnode -- download_package and install

\* The call of download_package or install that is running or ran last:
\*   pc    where it stands: "idle" (none running), "copyfile", "download",
\*         "yield" (inside the with block of the caller);
\*   out   how it ended;
\*   net   it made a network request; copied: it copied the file at link.
NoCall ==
    [op |-> "none", link |-> "", version |-> NoVersion, pc |-> "idle", out |-> "none",
     cached_file |-> NoPath, temp_file |-> NoPath, net |-> FALSE, copied |-> FALSE,
     orig_cache_dir |-> ""]

\* The file the original location of a local package holds at the start.
LocalPackage == "/data/local-index/node-v8.1.2-linux-x64.tar.gz"
\* The locations nodejs.org serves a package from.
RemotePackages == {"https://nodejs.org/dist/latest-v8.x/node-v8.1.2-linux-x64.tar.gz",
                   "https://nodejs.org/dist/latest-v8.x/node-v8.1.2-aix-ppc64.tar.gz"}

\* Damnode._ensure_cache_dir, entering: the cache directory of the call
ensure_cache_dir == IF enable_cache THEN cache_dir ELSE mkdtemp
\* Leaving _ensure_cache_dir without shutil.rmtree
keep_cache_dir(fs) == fs

\* Damnode._ensure_cache_dir, leaving: without caching the temporary
\* directory is removed
leave_cache_dir(fs) == IF enable_cache THEN fs ELSE rmtree(fs, mkdtemp)
\* Damnode._ensure_cache_dir, leaving: ... and self.cache_dir is set back
restore_cache_dir ==
    /\ cache_dir' = IF enable_cache THEN cache_dir ELSE call.orig_cache_dir
    /\ isdir' = IF enable_cache THEN isdir ELSE isdir \ {mkdtemp}

\* Damnode.download_package(link) from its start to its first write or to
\* its yield; this is the call it starts.
download_package(this, link) ==
    LET raise(out) ==
            /\ call' = [this EXCEPT !.out = out]
            /\ UNCHANGED <<files, cache_dir, isdir>>
        \* os.makedirs(self.cache_dir), or self.cache_dir = tempfile.mkdtemp()
        entered == [this EXCEPT !.orig_cache_dir = cache_dir]
        branch(cached_file, temp_file) ==
            /\ cache_dir' = ensure_cache_dir
            /\ isdir' = isdir \cup {ensure_cache_dir}
            /\ IF osp_isfile(cached_file)
               THEN /\ call' = [entered EXCEPT !.pc = "yield", !.cached_file = cached_file]
                    /\ UNCHANGED files
               ELSE IF osp_isfile(path_of(link))
               THEN \* shutil.copyfile opens cached_file for writing
                    /\ call' = [entered EXCEPT !.pc = "copyfile", !.cached_file = cached_file,
                                               !.copied = TRUE]
                    /\ files' = write(files, cached_file,
                                      [body |-> files[path_of(link)].body, len |-> 0])
               ELSE /\ call' = [entered EXCEPT !.pc = "download", !.cached_file = cached_file,
                                               !.temp_file = temp_file]
                    /\ files' = write(files, temp_file, [body |-> link, len |-> 0])
        cache(cached_file) == branch(cached_file, mkstemp(files, cached_file))
        named(name) ==
            IF parse_package_name(name).ok
            THEN cache(osp_join(ensure_cache_dir, name))
            ELSE raise("ValueError")
    IN  named(osp_basename(link))

\* Damnode.install_package(filename, prefix): how it ends.  An archive that
\* is not whole cannot be read to its end.
Damnode_install_package(filename, file) ==
    IF endswith(Chars[filename[2]], Chars[".tar.gz"]) \/ endswith(Chars[filename[2]], Chars[".zip"])
    THEN IF file.len = BodyChunks THEN "installed" ELSE "ReadError"
    ELSE "ValueError"

\* Damnode.install(hint).  Without a package suffix the hint is parsed as a
\* version, and then detect_platform_format() reads the name plat, which is
\* not defined: the call ends with a NameError.
Damnode_install(hint) ==
    IF hint # "" /\ has_package_suffix(hint)
    THEN download_package([NoCall EXCEPT !.op = "install", !.link = hint], hint)
    ELSE /\ call' = [NoCall EXCEPT
                        !.op = "install", !.link = hint, !.out = "NameError",
                        !.version = IF hint # "" /\ Damnode_parse_version(hint).ok
                                    THEN Damnode_parse_version(hint).key
                                    ELSE NoVersion]
         /\ UNCHANGED <<files, cache_dir, isdir>>

\* One chunk of shutil.copyfile(link, cached_file); after the last one
\* shutil.copystat and the yield.
copyfile(cached_file) ==
    /\ files' = [files EXCEPT ![cached_file].len = @ + 1]
    /\ call' = IF files[cached_file].len + 1 = BodyChunks
               THEN [call EXCEPT !.pc = "yield"]
               ELSE call

\* shutil.copyfile raises (the source cannot be read on, the disk is full):
\* download_package has no handler, _ensure_cache_dir is left.
copyfile_raises ==
    /\ files' = leave_cache_dir(files)
    /\ restore_cache_dir
    /\ call' = [call EXCEPT !.pc = "idle", !.out = "IOError"]

\* requests.get and one chunk of the body written to temp_file; after the
\* last one os.rename(temp_file, cached_file) and the yield.
download_chunk(temp_file, cached_file) ==
    IF files[temp_file].len + 1 = BodyChunks
    THEN /\ files' = rename([files EXCEPT ![temp_file].len = @ + 1], temp_file, cached_file)
         /\ call' = [call EXCEPT !.pc = "yield", !.net = TRUE]
    ELSE /\ files' = [files EXCEPT ![temp_file].len = @ + 1]
         /\ call' = [call EXCEPT !.net = TRUE]

\* The request or a read of the body raises: os.remove(temp_file); raise
download_raises(temp_file) ==
    /\ files' = leave_cache_dir(remove(files, temp_file))
    /\ restore_cache_dir
    /\ call' = [call EXCEPT !.pc = "idle", !.net = TRUE, !.out = "RequestException"]

\* The with block of the caller and the rest of download_package after its
\* yield: install runs install_package on the file, the test of
\* download_package does nothing; then _ensure_cache_dir is left.
with_block(cached_file, out) ==
    /\ call' = [call EXCEPT !.pc = "idle", !.out = out]
    /\ prefix' = IF out = "installed" THEN prefix \cup {cached_file} ELSE prefix
    /\ completed' = IF enable_cache /\ out \in {"installed", "yielded"}
                    THEN completed \cup {cached_file}
                    ELSE completed
    /\ files' = leave_cache_dir(files)
    /\ restore_cache_dir


----------------------------------------------------------------------------
\* The inputs.

VersionTitles == {"v5.0.0/", "v5.1.0/"}
PackageTitles == {"node-v5.0.0-linux-x64.tar.gz", "node-v5.0.1-linux-x64.tar.gz",
                  "node-v5.0.0-win-x86.zip"}
Platfs == {None, "", "linux", "win"}
Archs == {None, "x64", "x86"}
Fmts == {None, "tar.gz", "zip"}
VersionArgs == {None, "5.0"}
Hosts == {<<"Linux", "x86_64">>, <<"Windows", "x86_32">>}

SeqsUpTo(S, n) == UNION {[1..k -> S] : k \in 0..n}
Distinct(seq) == \A i, j \in 1..Len(seq) : i # j => seq[i] # seq[j]

RECURSIVE Links(_)
Links(idx) == IF idx = <<>> THEN 0 ELSE Len(Head(idx).pkgs) + Links(Tail(idx))

\* The indexes of at most MaxDirs version directories, titled differently
\* from titles, with at most maxlinks package links in all.
IndexesOf(titles, maxlinks) ==
    LET Listings == {l \in SeqsUpTo(PackageTitles, maxlinks) : Distinct(l)}
    IN  {idx \in SeqsUpTo([title : titles, pkgs : Listings], MaxDirs) :
            /\ Distinct([i \in 1..Len(idx) |-> idx[i].title])
            /\ Links(idx) <= maxlinks}

InitWith(indexes, dirs, hosts) ==
    /\ index \in indexes
    /\ \E h \in hosts : system = h[1] /\ machine = h[2]
    /\ node_dir \in dirs
    /\ prefix = {}
    /\ argv = [op |-> "none"]
    /\ result = NoResult
    /\ enable_cache = TRUE
    /\ files = (path_of(LocalPackage) :> [body |-> LocalPackage, len |-> BodyChunks])
    /\ call = NoCall
    /\ completed = {}
    /\ kills = 0
    /\ cache_dir = default_cache_dir
    /\ isdir = {osp_dirname(LocalPackage)}
    /\ arg = <<>>
    /\ ret = <<>>

\* The start of a call of one function on one of args on one of hosts: the
\* index is empty, nothing is installed or cached.
InitFn(hosts, args) ==
    /\ index = <<>>
    /\ \E h \in hosts : system = h[1] /\ machine = h[2]
    /\ node_dir = FALSE
    /\ prefix = {}
    /\ argv = [op |-> "none"]
    /\ result = NoResult
    /\ enable_cache = TRUE
    /\ files = (path_of(LocalPackage) :> [body |-> LocalPackage, len |-> BodyChunks])
    /\ call = NoCall
    /\ completed = {}
    /\ kills = 0
    /\ cache_dir = default_cache_dir
    /\ isdir = {osp_dirname(LocalPackage)}
    /\ arg \in args
    /\ ret = <<>>

\* What a call of one function leaves alone.
fn_frame == <<arg, damnode_vars, damnode2_vars, system, machine, prefix>>

----------------------------------------------------------------------------
\* Spec: any sequence of install and uninstall commands on one host, the
\* index holding one version directory.

Init == InitWith(IndexesOf({"v5.1.0/"}, MaxLinks), BOOLEAN, Hosts)

Install ==
    \E detect \in BOOLEAN, version \in VersionArgs :
        cmd_install(None, None, None, detect, version)

ListVersions == cmd_install_list_versions

Uninstall ==
    \/ cmd_uninstall(TRUE, None)
    \/ \E answer \in {"y", "n"} : cmd_uninstall(FALSE, answer)

Next == Install \/ ListVersions \/ Uninstall

Spec == Init /\ [][Next]_vars

----------------------------------------------------------------------------
\* SpecInstall: one cmd_install, with any filters, on any index.

InitInstall == InitWith(IndexesOf(VersionTitles, MaxLinks), {FALSE}, Hosts)

InstallOnce ==
    /\ argv.op = "none"
    /\ \E platf \in Platfs, arch \in Archs, fmt \in Fmts, detect \in BOOLEAN,
          version \in VersionArgs :
           cmd_install(platf, arch, fmt, detect, version)

SpecInstall == InitInstall /\ [][InstallOnce]_vars

----------------------------------------------------------------------------
\* SpecFind: find_version_url of any VERSION on any index page.

FindTitles == {"v3.9.0/", "v4.0.0/", "v5.0.0/", "v5.0.1/", "v5.1.0/", "v6.0.1/", "latest/"}
FindArgs == {"0", "4", "5", "v5", "6", "5.0", "5.1", "6.0", "5.0.0", "5.0.1", "5.1.0"}

InitFind == InitWith(IndexesOf(FindTitles, 0), {FALSE}, Hosts)

FindVersion ==
    /\ argv.op = "none"
    /\ \E version \in FindArgs :
        /\ argv' = [op |-> "find", version |-> version]
        /\ result' = [NoResult EXCEPT !.out = "found",
                         !.version_url = find_version_url(parse_version(version, "$").key)]
    /\ UNCHANGED <<index, system, machine, node_dir, prefix, damnode2_vars, fn_vars>>

SpecFind == InitFind /\ [][FindVersion]_vars

----------------------------------------------------------------------------
\* SpecDownload: calls of Damnode.download_package, one after the other,
\* step by step, on a Linux host.
\* SpecHint: calls of Damnode.install, one after the other, on any host.

\* The links given to download_package, and the hints given to install.
PackageLinks == RemotePackages \cup {LocalPackage, "https://nodejs.org/dist/not-node.zip"}
Hints == PackageLinks \cup {"", "8.1.2", "argon", "foo"}

InitDownload == InitWith({<<>>}, {FALSE}, {<<"Linux", "x86_64">>})
InitHint == InitWith({<<>>}, {FALSE}, Hosts)

DownloadPackage ==
    /\ call.pc = "idle"
    /\ \E link \in PackageLinks :
           download_package([NoCall EXCEPT !.op = "download_package", !.link = link], link)
    /\ UNCHANGED <<fn_vars, damnode_vars, system, machine, prefix, enable_cache, completed, kills>>

InstallHint ==
    /\ call.pc = "idle"
    /\ \E hint \in Hints : Damnode_install(hint)
    /\ UNCHANGED <<fn_vars, damnode_vars, system, machine, prefix, enable_cache, completed, kills>>

CopyChunk ==
    /\ call.pc = "copyfile"
    /\ copyfile(call.cached_file)
    /\ UNCHANGED <<fn_vars, damnode_vars, system, machine, prefix, enable_cache, completed, kills,
                   cache_dir, isdir>>

CopyRaises ==
    /\ call.pc = "copyfile"
    /\ copyfile_raises
    /\ UNCHANGED <<fn_vars, damnode_vars, system, machine, prefix, enable_cache, completed, kills>>

DownloadChunk ==
    /\ call.pc = "download"
    /\ call.link \in RemotePackages
    /\ download_chunk(call.temp_file, call.cached_file)
    /\ UNCHANGED <<fn_vars, damnode_vars, system, machine, prefix, enable_cache, completed, kills,
                   cache_dir, isdir>>

DownloadRaises ==
    /\ call.pc = "download"
    /\ download_raises(call.temp_file)
    /\ UNCHANGED <<fn_vars, damnode_vars, system, machine, prefix, enable_cache, completed, kills>>

WithBlock ==
    /\ call.pc = "yield"
    /\ with_block(call.cached_file,
                  IF call.op = "install"
                  THEN Damnode_install_package(call.cached_file, files[call.cached_file])
                  ELSE "yielded")
    /\ UNCHANGED <<fn_vars, damnode_vars, system, machine, enable_cache, kills>>

\* The with block of a caller of download_package raises.
ConsumerRaises ==
    /\ call.pc = "yield"
    /\ call.op = "download_package"
    /\ with_block(call.cached_file, "raised")
    /\ UNCHANGED <<fn_vars, damnode_vars, system, machine, enable_cache, kills>>

\* The process is killed inside download_package: nothing is cleaned up.  A
\* directory of mkdtemp is never named again, and the model forgets it.
Interrupt ==
    /\ call.pc # "idle"
    /\ kills < MaxKills
    /\ kills' = kills + 1
    /\ call' = [call EXCEPT !.pc = "idle", !.out = "killed"]
    /\ files' = leave_cache_dir(files)
    /\ restore_cache_dir
    /\ UNCHANGED <<fn_vars, damnode_vars, system, machine, prefix, enable_cache, completed>>

\* The caller sets Damnode.enable_cache between two calls.
SetEnableCache ==
    /\ call.pc = "idle"
    /\ enable_cache' = ~enable_cache
    /\ UNCHANGED <<fn_vars, damnode_vars, system, machine, prefix, files, call, completed, kills,
                   cache_dir, isdir>>

\* The file at the original location of the local package goes away.
RemoveOriginal ==
    /\ call.pc = "idle"
    /\ path_of(LocalPackage) \in DOMAIN files
    /\ files' = remove(files, path_of(LocalPackage))
    /\ UNCHANGED <<fn_vars, damnode_vars, system, machine, prefix, enable_cache, call, completed, kills,
                   cache_dir, isdir>>

NextDownload ==
    \/ DownloadPackage
    \/ CopyChunk \/ CopyRaises \/ DownloadChunk \/ DownloadRaises
    \/ WithBlock \/ Interrupt \/ SetEnableCache \/ RemoveOriginal

SpecDownload == InitDownload /\ [][NextDownload]_vars

\* Calls of download_package whose callers may raise inside the with block.
NextNoCache ==
    \/ DownloadPackage
    \/ CopyChunk \/ CopyRaises \/ DownloadChunk \/ DownloadRaises
    \/ WithBlock \/ ConsumerRaises \/ SetEnableCache \/ RemoveOriginal

SpecNoCache == InitDownload /\ [][NextNoCache]_vars

NextHint ==
    \/ InstallHint
    \/ CopyChunk \/ CopyRaises \/ DownloadChunk \/ DownloadRaises
    \/ WithBlock

SpecHint == InitHint /\ [][NextHint]_vars

----------------------------------------------------------------------------
\* The claims on damnode.py.

\* The version directories of the index page that version_url_dict keeps:
\* their title is a version not below min_version.
AvailableDirs == {i \in 1..Len(index) : VersionTitleParse[index[i].title].ok}
DirVersion(i) == VersionTitleParse[index[i].title].key
DirUrl(i) == <<index_url, index[i].title>>
PackageUrl(i, j) == <<index_url, index[i].title, index[i].pkgs[j]>>
\* The highest of a non-empty set of version directories.
Highest(dirs) ==
    CHOOSE i \in dirs : \A k \in dirs \ {i} : VersionLess(DirVersion(k), DirVersion(i))

\* A filter is unset when it is None or the empty text.
Unset(val) == val \in {None, ""}
\* The link titled title is a package link that satisfies the filters.
Satisfies(title, platf, arch, fmt) ==
    LET r == PackageTitleParse[title]
    IN  /\ r.ok
        /\ Unset(platf) \/ platf = r.key[1]
        /\ Unset(arch) \/ arch = r.key[2]
        /\ Unset(fmt) \/ fmt = r.key[3]
\* The package links of version directory i that satisfy the filters the
\* last cmd_install used.
SatisfyingLinks(i) ==
    {j \in 1..Len(index[i].pkgs) :
        Satisfies(index[i].pkgs[j], result.platf, result.arch, result.fmt)}

\* C1 as claimed: cmd_install without VERSION selects the package of the
\* highest available version that has a package satisfying the filters
\* (checked where that version has exactly one such package).
C1_HighestSatisfyingVersion ==
    (/\ argv.op = "install" /\ argv.version = None
     /\ ~Unset(result.platf) /\ ~Unset(result.arch) /\ ~Unset(result.fmt)) =>
        LET sat == {i \in AvailableDirs : SatisfyingLinks(i) # {}}
            top == Highest(sat)
        IN  (sat # {} /\ Cardinality(SatisfyingLinks(top)) = 1) =>
                \E j \in SatisfyingLinks(top) : result.downloaded = PackageUrl(top, j)

\* C1 as amended: cmd_install without VERSION looks only into the highest
\* available version of the index, whatever the listing order: a package it
\* selects is a package of that version satisfying the filters, and when that
\* version has no such package it fails with could-not-find-package and
\* selects nothing, also when a lower version has one.
C1_HighestVersionOnly ==
    (argv.op = "install" /\ argv.version = None /\ AvailableDirs # {}) =>
        LET top == Highest(AvailableDirs)
        IN  /\ result.version_url = DirUrl(top)
            /\ result.downloaded # NoUrl =>
                   \E j \in SatisfyingLinks(top) : result.downloaded = PackageUrl(top, j)
            /\ SatisfyingLinks(top) = {} =>
                   result.out = "PackageNotFound" /\ result.downloaded = NoUrl

\* The index lists the lower version first, both versions hold a package
\* satisfying the filters, and the package of the higher one was selected.
C1_Witness ==
    /\ argv.op = "install" /\ argv.version = None
    /\ ~Unset(result.platf) /\ ~Unset(result.arch)
    /\ Len(index) = 2 /\ AvailableDirs = {1, 2}
    /\ VersionLess(DirVersion(1), DirVersion(2))
    /\ SatisfyingLinks(1) # {}
    /\ \E j \in SatisfyingLinks(2) : result.downloaded = PackageUrl(2, j)

\* C2 as claimed: find_version_url returns the URL of the greatest available
\* version of which every component equals the pattern's component or the
\* pattern's component is None (a 0 in the pattern matches only a 0), and
\* None when there is no such version.
C2_ZeroMatchesOnlyZero ==
    argv.op = "find" =>
        LET pattern == parse_version(argv.version, "$").key
            matching == {i \in AvailableDirs :
                            \A k \in 1..3 : pattern[k] = NoInt \/ pattern[k] = DirVersion(i)[k]}
        IN  result.version_url =
                IF matching = {} THEN NoUrl ELSE DirUrl(Highest(matching))

\* C3 as claimed: cmd_install downloads only when exactly one package link
\* of the selected version directory satisfies the filters; with none it
\* fails with could-not-find-package, with two or more it fails with an error
\* that lists them all, and then nothing is downloaded.
C3_ExactlyOneOrError ==
    (argv.op = "install" /\ result.version_url # NoUrl) =>
        LET d == CHOOSE i \in 1..Len(index) : DirUrl(i) = result.version_url
            n == Cardinality(SatisfyingLinks(d))
        IN  /\ result.downloaded # NoUrl => n = 1
            /\ n = 0 => result.out = "PackageNotFound" /\ result.downloaded = NoUrl
            /\ n >= 2 => /\ result.out = "MoreThanOne"
                         /\ result.downloaded = NoUrl
                         /\ \A j \in SatisfyingLinks(d) :
                               \E k \in 1..Len(result.package_urls) :
                                   result.package_urls[k] = PackageUrl(d, j)

\* C4: a filter the caller gave is the one cmd_install uses; one not given is
\* the detected one when detection is on (the format that of the platform
\* used) and stays None when it is off; the packages found are those whose
\* platform, architecture and format each equal the filter or have it unset.
C4_ExplicitOverridesDetection ==
    (argv.op = "install" /\ result.out # "AlreadyInstalled") =>
        LET Used(given, used, detected) ==
                IF given # None THEN used = given
                ELSE IF argv.detect THEN used = detected
                ELSE used = None
            keys == IF result.version_url = NoUrl THEN {}
                    ELSE DictKeys(get_package_url_dict(result.version_url))
            found == {PackageTitleParse[basename(result.package_urls[k])].key :
                         k \in 1..Len(result.package_urls)}
        IN  /\ Used(argv.platf, result.platf, detect_platf)
            /\ Used(argv.arch, result.arch, detect_arch)
            /\ Used(argv.fmt, result.fmt, IF result.platf = "win" THEN "zip" ELSE "tar.gz")
            /\ found = {key \in keys :
                           /\ Unset(result.platf) \/ result.platf = key[1]
                           /\ Unset(result.arch) \/ result.arch = key[2]
                           /\ Unset(result.fmt) \/ result.fmt = key[3]}

\* On a Linux host with detection on, the caller asked for platform win and
\* no format: the win package in zip format was found and downloaded.
C4_Witness ==
    /\ argv.op = "install" /\ argv.detect /\ system = "Linux"
    /\ argv.platf = "win" /\ argv.arch = "x86" /\ argv.fmt = None
    /\ result.platf = "win" /\ result.fmt = "zip"
    /\ result.downloaded # NoUrl

\* C7 as claimed: the runtime counts as installed from the completion of an
\* install on: after an install that put its package into the prefix,
\* DamNode.installed holds (so that the next install is refused).
C7_InstalledAfterInstall ==
    (argv.op = "install" /\ result.downloaded # NoUrl /\ result.downloaded \in prefix)
        => installed

\* C8 as claimed: cmd_uninstall without --yes whose prompt the user declines
\* leaves the runtime directory as it was.
C8_DeclineKeepsDirectory ==
    [][(argv'.op = "uninstall" /\ ~argv'.yes /\ argv'.answer = "n")
          => node_dir' = node_dir]_vars

----------------------------------------------------------------------------
\* The claims on damnode2.py.

\* The platform and the architecture of the host, as _detect maps
\* platform.system() and platform.machine().
HostSystem == <<detect_platf, detect_arch>>
\* The hint has a known package suffix and names a package of another
\* system than the host's.
WrongSystem(hint) ==
    LET other(r) == r.ok /\ <<r.platf, r.arch>> # HostSystem
    IN  hint # "" /\ has_package_suffix(hint) /\ other(parse_package_name(osp_basename(hint)))
\* The hint is of none of the recognised forms: it has no known package
\* suffix, is no version, no LTS codename, and no path or URL that could be
\* listed.
Unrecognised(hint) ==
    /\ hint # ""
    /\ ~has_package_suffix(hint)
    /\ ~Damnode_parse_version(hint).ok
    /\ Str(lower(Chars[hint])) \notin {"argon", "boron"}
    /\ rfind(Chars[hint], "/") = 0
\* The files under a final cache filename: the files of a cache directory
\* that are no temporary file.
CacheFiles == {p \in DOMAIN files : Len(p) = 2 /\ p[1] \in {default_cache_dir, mkdtemp}}

\* C5 as claimed: an install from a hint that has a known package suffix and
\* names a package of another platform-architecture than the host's, once it
\* has the package file, fails with a mismatch error and extracts nothing
\* into the prefix.
C5_WrongSystemRefused ==
    (/\ call.op = "install" /\ call.pc = "idle"
     /\ call.out \notin {"RequestException", "IOError"}
     /\ WrongSystem(call.link))
        => call.out = "Mismatch" /\ call.cached_file \notin prefix

\* C6 as claimed: Damnode.install of a non-empty hint of none of the
\* recognised forms ends in an InvalidHint failure.
C6_InvalidHint ==
    (call.op = "install" /\ call.pc = "idle" /\ Unrecognised(call.link))
        => call.out = "InvalidHint"

\* C9: with caching enabled, a download_package of a link whose file name is
\* that of a cached file an earlier download_package completed with goes
\* straight to its yield of that cached file, without a network request,
\* without a copy and without a change to any file; and no step of such a
\* call changes the cached file.
C9_CachedFileReused ==
    [][/\ (/\ call.pc = "idle" /\ call' # call /\ enable_cache
           /\ osp_join(default_cache_dir, osp_basename(call'.link)) \in completed)
              => /\ call'.pc = "yield"
                 /\ call'.cached_file = osp_join(default_cache_dir, osp_basename(call'.link))
                 /\ ~call'.net /\ ~call'.copied
                 /\ files' = files
       /\ (call.pc # "idle" /\ enable_cache /\ call.cached_file \in completed)
              => /\ call.cached_file \in DOMAIN files'
                 /\ files'[call.cached_file] = files[call.cached_file]
                 /\ ~call'.net /\ ~call'.copied]_vars

\* The package was cached from its local original, the original is gone, and
\* a download_package of the remote link of the same file name has yielded
\* the cached file, which still holds the bytes of the local original.
C9_Witness ==
    /\ enable_cache /\ call.op = "download_package" /\ call.pc = "yield"
    /\ call.cached_file \in completed
    /\ call.link \in RemotePackages
    /\ files[call.cached_file] = [body |-> LocalPackage, len |-> BodyChunks]
    /\ path_of(LocalPackage) \notin DOMAIN files
    /\ ~call.net /\ ~call.copied

\* C10 as claimed: at every step of download_package, also after a failure
\* or a kill, every file under a final cache filename is complete; and after
\* a failed download the temporary file is gone.
C10_FinalNameComplete ==
    /\ \A p \in CacheFiles : files[p].len = BodyChunks
    /\ (call.pc = "idle" /\ call.out = "RequestException")
           => call.temp_file \notin DOMAIN files

----------------------------------------------------------------------------
\* damnode2.py: download_package without caching

FilesUnder(fs, dir) == {p \in DOMAIN fs : p[1] = dir}

\* The ways download_package ends that the process survives.
ExitPaths == {"yielded", "raised", "RequestException", "IOError"}

\* C11: with caching disabled, download_package yields a file inside a
\* temporary directory that did not exist before the call; when the call ends
\* (normally, by a failed copy or download, or by an exception of the
\* consumer) that directory and all its files are gone and cache_dir is the
\* configured directory again; the configured cache directory is not created
\* and no file of it is written.
C11_NoCacheTempDirCleaned ==
    [][~enable_cache =>
        /\ (call.pc = "idle" /\ call'.pc # "idle"
                => mkdtemp \notin isdir /\ mkdtemp \in isdir' /\ cache_dir' = mkdtemp)
        /\ (call'.pc = "yield"
                => /\ call'.cached_file[1] = mkdtemp
                   /\ call'.cached_file \in DOMAIN files'
                   /\ mkdtemp \in isdir')
        /\ (call.pc # "idle" /\ call'.pc = "idle" /\ call'.out \in ExitPaths
                => /\ mkdtemp \notin isdir'
                   /\ FilesUnder(files', mkdtemp) = {}
                   /\ cache_dir' = default_cache_dir)
        /\ (default_cache_dir \in isdir' <=> default_cache_dir \in isdir)
        /\ \A p \in FilesUnder(files', default_cache_dir) :
               p \in DOMAIN files /\ files'[p] = files[p]
    ]_vars

\* C11 witness: without caching and with a cache directory that was never
\* made, the consumer of a yielded file has raised and the call is over.
C11_Witness ==
    /\ ~enable_cache
    /\ call.op = "download_package" /\ call.pc = "idle" /\ call.out = "raised"
    /\ call.cached_file[1] = mkdtemp
    /\ mkdtemp \notin isdir
    /\ default_cache_dir \notin isdir
    /\ cache_dir = default_cache_dir

----------------------------------------------------------------------------
\* SpecVersion: Damnode.parse_version on one text

MaxText == 5
VersionAlphabet == {"v", "0", "1", ".", "\n"}
\* the texts of NameTest.test_parse_version, and one that ends with a newline
VersionExamples == {"v4", "5.12", "6.11.0", "6.11.0.0", "node-v4", "8.1.2\n"}
VersionTexts ==
    SeqsUpTo(VersionAlphabet, MaxText) \cup {Chars[t] : t \in VersionExamples}

InitVersion == InitFn({<<"Linux", "x86_64">>}, VersionTexts)
ParseVersion ==
    /\ ret = <<>>
    /\ ret' = <<match_version(arg, "$")>>
    /\ UNCHANGED fn_frame
SpecVersion == InitVersion /\ [][ParseVersion]_vars

RECURSIVE Split(_, _)
\* cs cut at every c
Split(cs, c) ==
    IF RunOfNot(cs, c, 1) = Len(cs)
    THEN <<cs>>
    ELSE <<SubSeq(cs, 1, RunOfNot(cs, c, 1))>>
         \o Split(SubSeq(cs, RunOfNot(cs, c, 1) + 2, Len(cs)), c)

AllDigits(cs) == cs # <<>> /\ \A i \in 1..Len(cs) : IsDigit(cs[i])
Unprefixed(cs) == IF cs # <<>> /\ cs[1] = "v" THEN Tail(cs) ELSE cs

\* cs has the form [v]major[.minor[.patch]], each a group of decimal digits
IsVersionForm(cs) ==
    LET groups(parts) == Len(parts) <= 3 /\ \A i \in 1..Len(parts) : AllDigits(parts[i])
    IN  groups(Split(Unprefixed(cs), "."))

\* (major, minor, patch) of a text of that form, NoInt for an absent group
VersionOf(cs) ==
    LET tuple(parts) == [i \in 1..3 |-> IF i <= Len(parts) THEN int(parts[i]) ELSE NoInt]
    IN  tuple(Split(Unprefixed(cs), "."))

\* C12: parse_version succeeds exactly on the texts of the form
\* [v]major[.minor[.patch]] and returns the integer value of each group that
\* is present and None for each that is absent; every other text fails.
C12_ParseVersionExact ==
    ret # <<>> =>
        /\ ret[1].ok <=> IsVersionForm(arg)
        /\ ret[1].ok => ret[1].key = VersionOf(arg)

----------------------------------------------------------------------------
\* SpecName: Damnode.parse_package_name on one file name

NamePrefixes == {"node-v", "node-"}
NameVersions == {"8.1.2", "8", "08.1", "X"}
NamePlatforms == {"linux", "li.nux"}
NameArchs == {"x64", "a-b"}
NameFormats == {"tar.gz", "zip", "superzip"}
\* further names of NameTest.test_parse_package_name, and names that lack a part
NameExamples ==
    {"foobar-v8.1.2-linux-x64.tar.gz", "node-v8.1.2-linux.tar.gz", "node-v8.1.2.tar.gz",
     "node-v8.1.2-linux-.zip", "node-v8.1.2-linux-x64.", "v8.1.2-linux-x64.zip"}
PackageNames ==
    {Str(Chars[pre] \o Chars[ver] \o Chars["-"] \o Chars[platf] \o Chars["-"]
         \o Chars[arch] \o Chars["."] \o Chars[fmt]) :
        pre \in NamePrefixes, ver \in NameVersions, platf \in NamePlatforms,
        arch \in NameArchs, fmt \in NameFormats}
    \cup NameExamples

InitName == InitFn({<<"Linux", "x86_64">>}, PackageNames)
ParsePackageName ==
    /\ ret = <<>>
    /\ ret' = <<parse_package_name(arg)>>
    /\ UNCHANGED fn_frame
SpecName == InitName /\ [][ParsePackageName]_vars

NoneOf(cs, c) == \A i \in 1..Len(cs) : cs[i] # c

\* cs follows node-v<version>-<platform>-<arch>.<format>: cut at its hyphens,
\* the parts are node, v and a version, a platform without dot, and then the
\* arch, a dot and the start of the format
IsPackageForm(cs) ==
    LET grammar(parts) ==
            /\ Len(parts) >= 4
            /\ parts[1] = <<"n", "o", "d", "e">>
            /\ parts[2] # <<>> /\ parts[2][1] = "v" /\ IsVersionForm(parts[2])
            /\ parts[3] # <<>> /\ NoneOf(parts[3], ".")
            /\ RunOfNot(parts[4], ".", 1) >= 1
            /\ RunOfNot(parts[4], ".", 1) < Len(parts[4])
            /\ (RunOfNot(parts[4], ".", 1) + 1 < Len(parts[4]) \/ Len(parts) > 4)
    IN  grammar(Split(cs, "-"))

RECURSIVE str(_)
\* str(n) of a natural number
str(n) == IF n < 10 THEN <<Digits[n + 1]>> ELSE str(n \div 10) \o <<Digits[(n % 10) + 1]>>

\* The file name made of the four fields parse_package_name returns
Reassembled(r) ==
    Chars["node-v"] \o str(r.version[1])
    \o (IF r.version[2] = NoInt THEN <<>> ELSE <<".">> \o str(r.version[2]))
    \o (IF r.version[3] = NoInt THEN <<>> ELSE <<".">> \o str(r.version[3]))
    \o <<"-">> \o Chars[r.platf] \o <<"-">> \o Chars[r.arch] \o <<".">> \o Chars[r.fmt]

\* C13: parse_package_name accepts exactly the names with a known package
\* suffix that follow node-v<version>-<platform>-<arch>.<format>; the version
\* it returns is that of parse_version, platform and arch hold neither a
\* hyphen nor a dot, and the four fields put together give the name again.
C13_PackageNameGrammar ==
    ret # <<>> =>
        /\ ret[1].ok <=> has_package_suffix(arg) /\ IsPackageForm(Chars[arg])
        /\ ret[1].ok =>
              /\ NoneOf(Chars[ret[1].platf], "-") /\ NoneOf(Chars[ret[1].platf], ".")
              /\ NoneOf(Chars[ret[1].arch], "-") /\ NoneOf(Chars[ret[1].arch], ".")
              /\ Reassembled(ret[1]) = Chars[arg]

\* C14: a name parse_package_name rejects is rejected with 'suffix must be
\* one of' when it has no known package suffix and with 'it does not match
\* regex' otherwise, never with another error or one without message.
C14_TwoRejectionCauses ==
    (ret # <<>> /\ ~ret[1].ok) =>
        ret[1].err = IF has_package_suffix(arg) THEN "regex" ELSE "suffix"

----------------------------------------------------------------------------
\* SpecDetect: the detection functions on one host

Machines ==
    {"armv7l", "armv6l", "i686", "i386", "x86_64", "amd64", "AMD64", "x86", "x86_32",
     "i686-AT386", "aarch64", "arm64", "ppc", "ppc64", "ppc64le", "powerpc", "s390",
     "s390x", "sparc64", "x88"}
Systems == {"AIX", "Darwin", "Linux", "Solaris", "SunOS", "Windows"}

InitDetect == InitFn(Systems \X Machines, {<<>>})

DetectArchitecture ==
    /\ ret = <<>>
    /\ ret' = <<[fn |-> "detect_architecture", ok |-> TRUE,
                 val |-> Damnode_detect_architecture]>>
    /\ UNCHANGED fn_frame

DetectPlatformFormat ==
    /\ ret = <<>>
    /\ ret' = <<[fn |-> "detect_platform_format"] @@ Damnode_detect_platform_format>>
    /\ UNCHANGED fn_frame

\* DamNode.detect_platf and DamNode.detect_fmt, as cmd_install calls them
DetectPlatfFmt ==
    /\ ret = <<>>
    /\ ret' = <<[fn |-> "detect_platf", ok |-> TRUE,
                 val |-> <<detect_platf, detect_fmt(detect_platf)>>]>>
    /\ UNCHANGED fn_frame

NextDetect == DetectArchitecture \/ DetectPlatformFormat \/ DetectPlatfFmt
SpecDetect == InitDetect /\ [][NextDetect]_vars

\* The architecture the rules give for a lower-cased machine string.
ClaimedArch(m) ==
    CASE m \in {"x86_64", "amd64"} -> "x64"
      [] m \in {"i386", "i686", "i686-at386", "x86", "x86_32"} -> "x86"
      [] m \in {"aarch64", "arm64"} -> "arm64"
      [] m \in {"ppc", "ppc64", "powerpc"} -> "ppc64"
      [] m \in {"s390", "s390x"} -> "s390x"
      [] OTHER -> m

\* C15: the detected architecture is the one the ordered rules give for the
\* lower-cased machine string: x64 for x86_64 and amd64, x86 for the i386 and
\* i686 family and the other x86_ strings, arm64 for aarch64 and arm64, ppc64
\* for ppc, ppc64 and powerpc, s390x for s390 and s390x, and the string
\* itself for armv6l, armv7l, ppc64le and every string no rule knows.
C15_ArchitectureRules ==
    (ret # <<>> /\ ret[1].fn = "detect_architecture") =>
        ret[1].val = ClaimedArch(Str(lower(Chars[machine])))

\* The platform tag the rules give for a lower-cased system name.
ClaimedPlatform(sys) ==
    CASE sys = "windows" -> "win"
      [] sys = "solaris" -> "sunos"
      [] OTHER -> sys

\* C16: platform and format detection returns without error the platform tag
\* the rules give for the lower-cased system name, with the format zip when
\* the tag is win and tar.gz otherwise; for DamNode.detect_platf and
\* detect_fmt and for Damnode.detect_platform_format.
C16_PlatformFormatDetected ==
    (ret # <<>> /\ ret[1].fn \in {"detect_platform_format", "detect_platf"}) =>
        /\ ret[1].ok
        /\ ret[1].val =
              <<ClaimedPlatform(Str(lower(Chars[system]))),
                IF ClaimedPlatform(Str(lower(Chars[system]))) = "win" THEN "zip" ELSE "tar.gz">>

----------------------------------------------------------------------------
\* SpecLinks: Damnode.read_links on one location

\* The documents: old.html of the test data; one with other tags, an anchor
\* without href and empty hrefs; one with an href without value; none
Htmls ==
    {<<[tag |-> "a", attrs |-> << <<"href", "v3">> >>],
       [tag |-> "a", attrs |-> << <<"href", "https://nodejs.org/dist/latest-v4.x">> >>],
       [tag |-> "a", attrs |-> << <<"href", " v7.10.0 ">> >>]>>,
     <<[tag |-> "link", attrs |-> << <<"href", "style.css">> >>],
       [tag |-> "a", attrs |-> << <<"name", "v3">> >>],
       [tag |-> "a", attrs |-> << <<"href", "">> >>],
       [tag |-> "a", attrs |-> << <<"href", "  ">>, <<"href", "node-v6.xz">> >>]>>,
     <<[tag |-> "a", attrs |-> << <<"href", "v3">> >>],
       [tag |-> "a", attrs |-> << <<"href", None>> >>]>>,
     <<>>}
\* How os.listdir(link) and open(link) end at the locations of the model: a
\* name with a package suffix and a URL name nothing of the file system; the
\* directory may be unreadable; the file may be unreadable or gone; a path
\* below the file runs through something that is no directory.
Access ==
    [link \in {"node-v6.xz", "/data/local-index", "/data/local-index/old.html",
               "/data/local-index/old.html/v3", "https://nodejs.org/dist/latest-v8.x",
               "https://nodejs.org/dist/latest-v8.x/"} |->
        CASE link = "/data/local-index" -> {<<"ok", "EISDIR">>, <<"EACCES", "EACCES">>}
          [] link = "/data/local-index/old.html" ->
                {<<"ENOTDIR", "ok">>, <<"ENOTDIR", "EACCES">>, <<"ENOENT", "ENOENT">>}
          [] link = "/data/local-index/old.html/v3" -> {<<"ENOTDIR", "ENOTDIR">>}
          [] OTHER -> {<<"ENOENT", "ENOENT">>}]
Locations ==
    UNION {{[link |-> link, listdir |-> access[1], open |-> access[2], get |-> get,
             html |-> html] :
                access \in Access[link], get \in {"ok", "redirected", "ConnectionError"},
                html \in Htmls} :
           link \in DOMAIN Access}

InitLinks == InitFn({<<"Linux", "x86_64">>}, Locations)
ReadLinks ==
    /\ ret = <<>>
    /\ ret' = <<read_links(arg)>>
    /\ UNCHANGED fn_frame
SpecLinks == InitLinks /\ [][ReadLinks]_vars

MissingPath == {"ENOENT", "ENOTDIR"}

\* C17: read_links returns [location] for a location with a package suffix
\* without any access; otherwise the sorted children of an existing
\* directory; otherwise, the directory missing, the links of an existing
\* file; otherwise, the file missing too, it fetches the location.  Only a
\* missing-path error, ENOENT or ENOTDIR, leads to the next strategy; any
\* other error is raised and nothing further is tried.
C17_StrategyOrder ==
    ret # <<>> =>
        IF has_package_suffix(arg.link)
        THEN ret[1].out = "return" /\ ret[1].links = <<Chars[arg.link]>> /\ ret[1].tried = <<>>
        ELSE IF arg.listdir = "ok"
        THEN /\ ret[1].out = "return" /\ ret[1].tried = <<"listdir">>
             /\ {ret[1].links[i] : i \in 1..Len(ret[1].links)}
                    = {join(Chars[arg.link], Chars[listdir[i]]) : i \in 1..Len(listdir)}
             /\ \A i \in 1..Len(ret[1].links) - 1 :
                    str_less(ret[1].links[i], ret[1].links[i + 1])
        ELSE IF arg.listdir \notin MissingPath
        THEN ret[1].out = arg.listdir /\ ret[1].tried = <<"listdir">>
        ELSE IF arg.open = "ok"
        THEN ret[1].out \in {"return", "AttributeError"} /\ ret[1].tried = <<"listdir", "open">>
        ELSE IF arg.open \notin MissingPath
        THEN ret[1].out = arg.open /\ ret[1].tried = <<"listdir", "open">>
        ELSE ret[1].tried = <<"listdir", "open", "get">>

RECURSIVE ClaimedHrefs(_)
\* The non-empty trimmed href values of the a tags of html, in document order
ClaimedHrefs(html) ==
    IF html = <<>> THEN <<>>
    ELSE (IF Head(html).tag = "a"
          THEN SelectSeq(Head(html).attrs,
                         LAMBDA a : a[1] = "href" /\ a[2] # None /\ strip(Chars[a[2]]) # <<>>)
          ELSE <<>>)
         \o ClaimedHrefs(Tail(html))

\* The base of the index read at loc: the path of a local file, the URL of
\* the response for a remote index
ClaimedBase(loc, tried) ==
    IF tried = <<"listdir", "open">> THEN Chars[loc.link] ELSE requests_get(loc).url

\* C18: the links read from an HTML index are, in document order, the
\* non-empty trimmed href values of its a tags, each joined to the base of
\* the index: the path of a local file, the URL of the response after
\* redirects for a remote index.
C18_LinksFromHtml ==
    (/\ ret # <<>>
     /\ \/ ret[1].tried = <<"listdir", "open">> /\ arg.open = "ok"
        \/ ret[1].tried = <<"listdir", "open", "get">> /\ arg.get # "ConnectionError")
    => /\ ret[1].out = "return"
       /\ ret[1].links =
             [i \in 1..Len(ClaimedHrefs(arg.html)) |->
                 urlparse_urljoin(ClaimedBase(arg, ret[1].tried),
                                  strip(Chars[ClaimedHrefs(arg.html)[i][2]]))]

----------------------------------------------------------------------------
\* SpecArchive: install_package on one archive

ArchiveNames ==
    {"node-v8.1.2-linux-x64.tar.gz", "node-v8.1.2-win-x64.zip", "node.tar.gz", "node.zip",
     "node-v8.1.2-linux-x64.tar.xz"}
ArchiveTops == {"node-v8.1.2-linux-x64", "node-v8.1.2-win-x64"}
\* what lies under the top-level directory; <<>> is the directory itself
ArchiveRels == {<<>>, <<"bin">>, <<"bin", "node">>, <<"node.exe">>}
Archives ==
    [filename : ArchiveNames, top : ArchiveTops, rels : SUBSET ArchiveRels \ {{}}]
Members(archive) == {<<archive.top>> \o rel : rel \in archive.rels}

InitArchive == InitFn({<<"Linux", "x86_64">>}, Archives)

\* Damnode.install_package(filename, sys.prefix)
InstallPackage ==
    /\ ret = <<>>
    /\ ret' = <<[fn |-> "Damnode.install_package"]
                @@ install_package_writes(arg.filename, Members(arg), sys_prefix)>>
    /\ UNCHANGED fn_frame

\* DamNode.install_package(package_file)
InstallPackageFile ==
    /\ ret = <<>>
    /\ ret' = <<[fn |-> "DamNode.install_package"]
                @@ DamNode_install_package(arg.filename, Members(arg))>>
    /\ UNCHANGED fn_frame

NextArchive == InstallPackage \/ InstallPackageFile
SpecArchive == InitArchive /\ [][NextArchive]_vars

Supported(filename) ==
    endswith(Chars[filename], Chars[".tar.gz"]) \/ endswith(Chars[filename], Chars[".zip"])

\* C19: install_package on a .tar.gz or .zip archive whose members all lie
\* under one top-level directory writes each member <top>/<rel> at
\* <prefix>/<rel> and nowhere else.
C19_TopLevelStripped ==
    (ret # <<>> /\ Supported(arg.filename)) =>
        ret[1].written = {sys_prefix \o rel : rel \in arg.rels}

\* C20: every path install_package writes lies inside the prefix, whatever
\* the archive and the name of its file are.
C20_WritesInsidePrefix ==
    ret # <<>> =>
        \A path \in ret[1].written : SubSeq(path, 1, Len(sys_prefix)) = sys_prefix

============================================================================
